---- MODULE Spec2Model ----

(***************************************************************************)
(* Podcastpio: the script generation facade (generatePodcastScript), the   *)
(* deterministic fallback synthesizer (generateFallbackScript) and the     *)
(* request handlers that call them.                                        *)
(*                                                                         *)
(* JavaScript strings whose characters the code inspects (content,         *)
(* duration) are sequences of one-character strings.  A text the code      *)
(* assembles from a template is the sequence of its chunks: the template's *)
(* literals as whole strings, the interpolated values in between; the      *)
(* JavaScript string is the concatenation of the chunks.                   *)
(***************************************************************************)
EXTENDS Integers, Sequences, FiniteSets, TLC

(***************************************************************************)
(* Bounds of the model.                                                    *)
(***************************************************************************)
\* Longest content of the fallback harness, in vocabulary pieces.
MaxPieces == 2

\* The requests the server model handles, concurrently.
NumRequests == 2

\* Most records the direct calls of MemStorage create.
MaxScripts == 3

(***************************************************************************)
(* JavaScript string primitives, on sequences of characters.               *)
(***************************************************************************)
UpperLetters ==
  <<"A","B","C","D","E","F","G","H","I","J","K","L","M",
    "N","O","P","Q","R","S","T","U","V","W","X","Y","Z">>

LowerLetters ==
  <<"a","b","c","d","e","f","g","h","i","j","k","l","m",
    "n","o","p","q","r","s","t","u","v","w","x","y","z">>

LowerCaseOf ==
  [c \in {UpperLetters[i] : i \in 1..26} |->
     LowerLetters[CHOOSE i \in 1..26 : UpperLetters[i] = c]]

UpperCaseOf ==
  [c \in {LowerLetters[i] : i \in 1..26} |->
     UpperLetters[CHOOSE i \in 1..26 : LowerLetters[i] = c]]

\* String.prototype.toLowerCase, one character.
LowerChar(c) == IF c \in DOMAIN LowerCaseOf THEN LowerCaseOf[c] ELSE c

\* String.prototype.toUpperCase, one character.
UpperChar(c) == IF c \in DOMAIN UpperCaseOf THEN UpperCaseOf[c] ELSE c

ToLowerCase(s) == [i \in 1..Len(s) |-> LowerChar(s[i])]

\* The characters \s matches and trim() strips (those the model's inputs use).
Whitespace == {" ", "\t", "\n"}

\* The characters of the class [.!?].
SentenceEnd == {".", "!", "?"}

\* s.split(/[seps]+/): the pieces between maximal runs of separator
\* characters, in order.  A leading or a trailing run leaves an empty piece
\* at that end, and the empty string splits into one empty piece.
Split(s, seps) ==
  LET n == Len(s)
      starts == {i \in 1..n : s[i] \notin seps /\ (i = 1 \/ s[i-1] \in seps)}
      StartAt(k) == CHOOSE i \in starts : Cardinality({j \in starts : j < i}) = k - 1
      EndOf(i) == CHOOSE j \in i..n : /\ \A k \in i..j : s[k] \notin seps
                                      /\ (j = n \/ s[j+1] \in seps)
      pieces == [k \in 1..Cardinality(starts) |-> SubSeq(s, StartAt(k), EndOf(StartAt(k)))]
  IN  IF n = 0 THEN << << >> >>
      ELSE (IF s[1] \in seps THEN << << >> >> ELSE << >>)
           \o pieces
           \o (IF s[n] \in seps THEN << << >> >> ELSE << >>)

\* String.prototype.trim.
Trim(s) ==
  LET keep == {i \in 1..Len(s) : s[i] \notin Whitespace}
  IN  IF keep = {} THEN << >>
      ELSE LET lo == CHOOSE i \in keep : \A j \in keep : i <= j
               hi == CHOOSE i \in keep : \A j \in keep : i >= j
           IN  SubSeq(s, lo, hi)

\* Array.prototype.slice(from, to) with 0 <= from, on 1-based sequences:
\* the elements at 0-based indices from .. to-1 that exist.
Slice(a, from, to) ==
  LET hi == IF to < Len(a) THEN to ELSE Len(a)
  IN  IF from >= hi THEN << >> ELSE SubSeq(a, from + 1, hi)

\* JavaScript's undefined, for an optional string: no sequence of characters
\* (each of length one) equals it.
Undefined == <<"undefined">>

(***************************************************************************)
(* generateFallbackScript: the tables.                                     *)
(***************************************************************************)
TechnologyKeywords ==
  {<<"t","e","c","h","n","o","l","o","g","y">>, <<"t","e","c","h">>, <<"a","i">>,
    <<"d","i","g","i","t","a","l">>, <<"s","o","f","t","w","a","r","e">>}

BusinessKeywords ==
  {<<"b","u","s","i","n","e","s","s">>, <<"m","a","r","k","e","t">>,
    <<"c","o","m","p","a","n","y">>, <<"f","i","n","a","n","c","e">>,
    <<"e","c","o","n","o","m","y">>}

HealthKeywords ==
  {<<"h","e","a","l","t","h">>, <<"m","e","d","i","c","a","l">>,
    <<"w","e","l","l","n","e","s","s">>, <<"f","i","t","n","e","s","s">>,
    <<"n","u","t","r","i","t","i","o","n">>}

EducationKeywords ==
  {<<"e","d","u","c","a","t","i","o","n">>, <<"l","e","a","r","n","i","n","g">>,
    <<"s","c","h","o","o","l">>, <<"u","n","i","v","e","r","s","i","t","y">>,
    <<"s","t","u","d","y">>}

ScienceKeywords ==
  {<<"s","c","i","e","n","c","e">>, <<"r","e","s","e","a","r","c","h">>,
    <<"s","t","u","d","y">>, <<"d","i","s","c","o","v","e","r","y">>,
    <<"e","x","p","e","r","i","m","e","n","t">>}

stopWords ==
  {<<"t","h","e">>, <<"a">>, <<"a","n">>, <<"a","n","d">>, <<"o","r">>, <<"b","u","t">>,
    <<"i","n">>, <<"o","n">>, <<"a","t">>, <<"t","o">>, <<"f","o","r">>, <<"o","f">>,
    <<"w","i","t","h">>, <<"b","y">>, <<"i","s">>, <<"a","r","e">>, <<"w","a","s">>,
    <<"w","e","r","e">>, <<"b","e">>, <<"b","e","e","n">>, <<"h","a","v","e">>,
    <<"h","a","s">>, <<"h","a","d">>, <<"d","o">>, <<"d","o","e","s">>, <<"d","i","d">>,
    <<"w","i","l","l">>, <<"w","o","u","l","d">>, <<"c","o","u","l","d">>,
    <<"s","h","o","u","l","d">>, <<"m","a","y">>, <<"m","i","g","h","t">>, <<"c","a","n">>,
    <<"t","h","i","s">>, <<"t","h","a","t">>, <<"t","h","e","s","e">>, <<"t","h","o","s","e">>,
    <<"i">>, <<"y","o","u">>, <<"h","e">>, <<"s","h","e">>, <<"i","t">>, <<"w","e">>,
    <<"t","h","e","y">>, <<"m","e">>, <<"h","i","m">>, <<"h","e","r">>, <<"u","s">>,
    <<"t","h","e","m">>}

\* The names an object literal inherits from Object.prototype, as the
\* strings a property lookup obj[key] can be given.
ObjectPrototypeKeys ==
  {<<"c","o","n","s","t","r","u","c","t","o","r">>, <<"_","_","p","r","o","t","o","_","_">>,
   <<"t","o","S","t","r","i","n","g">>, <<"v","a","l","u","e","O","f">>,
   <<"h","a","s","O","w","n","P","r","o","p","e","r","t","y">>,
   <<"i","s","P","r","o","t","o","t","y","p","e","O","f">>,
   <<"p","r","o","p","e","r","t","y","I","s","E","n","u","m","e","r","a","b","l","e">>,
   <<"t","o","L","o","c","a","l","e","S","t","r","i","n","g">>}

\* styleFormats (the literal's own properties).
StyleConversational == <<"c","o","n","v","e","r","s","a","t","i","o","n","a","l">>
StyleProfessional == <<"p","r","o","f","e","s","s","i","o","n","a","l">>
StyleEducational == <<"e","d","u","c","a","t","i","o","n","a","l">>
StyleInterview == <<"i","n","t","e","r","v","i","e","w">>

styleFormats(style) ==
  CASE style = StyleConversational ->
         [introTone |-> "friendly and welcoming",
          transitionPhrase |-> "So let's dive in",
          hostVoice |-> "casual and engaging"]
    [] style = StyleProfessional ->
         [introTone |-> "authoritative and polished",
          transitionPhrase |-> "Let's examine this in detail",
          hostVoice |-> "professional and informative"]
    [] style = StyleEducational ->
         [introTone |-> "knowledgeable and approachable",
          transitionPhrase |-> "Today we'll learn about",
          hostVoice |-> "educational and clear"]
    [] style = StyleInterview ->
         [introTone |-> "curious and engaging",
          transitionPhrase |-> "Our guest today brings unique insights",
          hostVoice |-> "inquisitive and thoughtful"]

OwnStyles == {StyleConversational, StyleProfessional, StyleEducational, StyleInterview}

\* durationMap (the literal's own properties).
Duration5to10 == <<"5","-","1","0">>
Duration10to20 == <<"1","0","-","2","0">>
Duration20to30 == <<"2","0","-","3","0">>
Duration30plus == <<"3","0","+">>

durationMap(duration) ==
  CASE duration = Duration5to10 -> 8
    [] duration = Duration10to20 -> 15
    [] duration = Duration20to30 -> 25
    [] duration = Duration30plus -> 35

OwnDurations == {Duration5to10, Duration10to20, Duration20to30, Duration30plus}

(***************************************************************************)
(* generateFallbackScript: the steps.                                      *)
(***************************************************************************)
\* Variant: the content is split without being lower-cased.
wordsCaseSensitive(content) == Split(content, Whitespace)

\* const words = content.toLowerCase().split(/\s+/)
words(content) == Split(ToLowerCase(content), Whitespace)

\* const sentences = content.split(/[.!?]+/).filter(s => s.trim().length > 10)
sentences(content) ==
  SelectSeq(Split(content, SentenceEnd), LAMBDA s : Len(Trim(s)) > 10)

\* const firstSentence = sentences[0]?.trim() || "Welcome to today's discussion."
firstSentence(ss) ==
  IF ss # << >> /\ Trim(ss[1]) # << >>
  THEN Trim(ss[1])
  ELSE <<"Welcome to today's discussion.">>

\* Variant: a word matches when a keyword is a prefix of it.
SomeWordStartsWith(ws, keywords) ==
  \E i \in 1..Len(ws) : \E k \in keywords :
    Len(k) <= Len(ws[i]) /\ SubSeq(ws[i], 1, Len(k)) = k

\* words.some(w => keywords.includes(w))
SomeWordIn(ws, keywords) == \E i \in 1..Len(ws) : ws[i] \in keywords

\* Variant: an else-if chain, the first matching test decides.
categoryFirstMatch(ws) ==
  IF \E i \in 1..Len(ws) : ws[i] \in TechnologyKeywords THEN "Technology"
  ELSE IF \E i \in 1..Len(ws) : ws[i] \in BusinessKeywords THEN "Business"
  ELSE IF \E i \in 1..Len(ws) : ws[i] \in HealthKeywords THEN "Health"
  ELSE IF \E i \in 1..Len(ws) : ws[i] \in EducationKeywords THEN "Education"
  ELSE IF \E i \in 1..Len(ws) : ws[i] \in ScienceKeywords THEN "Science"
  ELSE "General"

\* Variant: the Health test repeats the Business keywords.
categoryRepeatedList(ws) ==
  LET Some(keywords) == \E i \in 1..Len(ws) : ws[i] \in keywords
      c0 == "General"
      c1 == IF Some(TechnologyKeywords) THEN "Technology" ELSE c0
      c2 == IF Some(BusinessKeywords) THEN "Business" ELSE c1
      c3 == IF Some(BusinessKeywords) THEN "Health" ELSE c2
      c4 == IF Some(EducationKeywords) THEN "Education" ELSE c3
      c5 == IF Some(ScienceKeywords) THEN "Science" ELSE c4
  IN  c5

\* The five category tests, each an assignment that a later test overwrites.
category(ws) ==
  LET c0 == "General"
      c1 == IF SomeWordIn(ws, TechnologyKeywords) THEN "Technology" ELSE c0
      c2 == IF SomeWordIn(ws, BusinessKeywords) THEN "Business" ELSE c1
      c3 == IF SomeWordIn(ws, HealthKeywords) THEN "Health" ELSE c2
      c4 == IF SomeWordIn(ws, EducationKeywords) THEN "Education" ELSE c3
      c5 == IF SomeWordIn(ws, ScienceKeywords) THEN "Science" ELSE c4
  IN  c5

\* const meaningfulWords = words.filter(w => w.length > 4 && !stopWords.has(w))
meaningfulWords(ws) ==
  SelectSeq(ws, LAMBDA w : Len(w) > 4 /\ w \notin stopWords)

Digits == <<"0","1","2","3","4","5","6","7","8","9">>

DigitValue(c) == (CHOOSE i \in 1..10 : Digits[i] = c) - 1

\* a < b for canonical decimal numerals (no leading zero).
NumeralLess(a, b) ==
  \/ Len(a) < Len(b)
  \/ /\ Len(a) = Len(b)
     /\ \E k \in 1..Len(a) : /\ \A j \in 1..(k-1) : a[j] = b[j]
                             /\ DigitValue(a[k]) < DigitValue(b[k])

\* 2^32 - 2, the largest array index.
MaxArrayIndex == <<"4","2","9","4","9","6","7","2","9","4">>

\* A property name that is an array index (a canonical numeral up to 2^32 - 2):
\* Object.entries lists such names first, in ascending numeric order.
IsArrayIndex(w) ==
  /\ w # << >>
  /\ \A i \in 1..Len(w) : \E d \in 1..10 : Digits[d] = w[i]
  /\ (w[1] = "0" => Len(w) = 1)
  /\ ~NumeralLess(MaxArrayIndex, w)

NameConstructor == <<"c","o","n","s","t","r","u","c","t","o","r">>
NameProto == <<"_","_","p","r","o","t","o","_","_">>

\* wordFreq after the reduce, as Object.entries(wordFreq) lists it: one entry
\* per own property.  acc[word] = (acc[word] || 0) + 1 reads an inherited
\* value for a word that names a property of Object.prototype: for
\* "constructor" the count becomes a string (numeric = FALSE: b - a is NaN),
\* and the assignment to "__proto__" of a primitive creates no property.
\* The other inherited names have an upper-case letter, which no lower-cased
\* word has.
Occurrences(mw, w) == Cardinality({i \in 1..Len(mw) : mw[i] = w})

wordFreq(mw) ==
  LET firsts == {i \in 1..Len(mw) : mw[i] # NameProto
                                      /\ (\A j \in 1..(i-1) : mw[j] # mw[i])}
      Before(i, j) ==
        IF IsArrayIndex(mw[i])
        THEN IF IsArrayIndex(mw[j])
             THEN NumeralLess(mw[i], mw[j])
             ELSE TRUE
        ELSE ~IsArrayIndex(mw[j]) /\ i < j
      Rank(i) == 1 + Cardinality({j \in firsts : Before(j, i)})
      At(k) == CHOOSE i \in firsts : Rank(i) = k
  IN  [k \in 1..Cardinality(firsts) |->
         [word |-> mw[At(k)],
          count |-> Occurrences(mw, mw[At(k)]),
          numeric |-> mw[At(k)] # NameConstructor]]

\* The comparator ([,a], [,b]) => b - a; NaN counts as 0.
CompareFreq(a, b) ==
  IF a.numeric /\ b.numeric THEN b.count - a.count ELSE 0

\* Array.prototype.sort, which is stable: each entry is inserted behind the
\* last entry that the comparator does not put after it.  (With a NaN among
\* three or more counts the comparator is inconsistent and the order the
\* engine produces is implementation-defined; the harness draws a NaN count
\* only in a content of two entries, where NaN is read as +0.)
RECURSIVE InsertSorted(_, _)
InsertSorted(sorted, x) ==
  IF sorted = << >> THEN <<x>>
  ELSE IF CompareFreq(sorted[Len(sorted)], x) > 0
       THEN Append(InsertSorted(SubSeq(sorted, 1, Len(sorted) - 1), x),
                   sorted[Len(sorted)])
       ELSE Append(sorted, x)

RECURSIVE SortEntries(_)
SortEntries(entries) ==
  IF entries = << >> THEN << >>
  ELSE InsertSorted(SortEntries(SubSeq(entries, 1, Len(entries) - 1)),
                    entries[Len(entries)])

\* word.charAt(0).toUpperCase() + word.slice(1)
Capitalize(w) ==
  IF w = << >> THEN << >> ELSE <<UpperChar(w[1])>> \o Tail(w)

\* Variant: every entry is kept, without slice(0, 5).
keyTopicsUnsliced(mw) ==
  LET all == SortEntries(wordFreq(mw))
  IN  [k \in 1..Len(all) |-> Capitalize(all[k].word)]

\* Object.entries(wordFreq).sort(...).slice(0, 5).map(capitalize)
keyTopics(mw) ==
  LET top == Slice(SortEntries(wordFreq(mw)), 0, 5)
  IN  [k \in 1..Len(top) |-> Capitalize(top[k].word)]

\* const { content, style, duration, showName = "The Show" } = options:
\* the default replaces undefined only.
ShowNameOrDefault(showName) ==
  IF showName = Undefined THEN <<"The Show">> ELSE showName

\* const format = styleFormats[style] || styleFormats.conversational.  A style
\* that names an inherited property yields that (truthy) value, which has
\* none of the three properties: each reads as undefined.
format(style) ==
  IF style \in OwnStyles THEN styleFormats(style)
  ELSE IF style \in ObjectPrototypeKeys
       THEN [introTone |-> "undefined",
             transitionPhrase |-> "undefined",
             hostVoice |-> "undefined"]
       ELSE styleFormats(StyleConversational)

intro(showName, first, fmt) ==
  <<"[INTRO MUSIC FADES IN]\n\nWelcome to ">>
  \o ShowNameOrDefault(showName)
  \o <<"! I'm your host, and today we're diving into a fascinating topic that's sure to capture your attention.\n\n[MUSIC FADES TO BACKGROUND]\n\n">>
  \o first
  \o <<" This is exactly the kind of story that deserves our attention, and I'm excited to break it down for you in today's episode.\n\n[MUSIC FADES OUT]\n\n">>
  \o <<fmt.transitionPhrase>>
  \o <<", and explore what this means for all of us. Grab your coffee, settle in, and let's get started.">>

\* Variant: the chunks start at the first sentence.
contentChunksFromFirst(ss) ==
  Slice(ss, 0, IF Len(ss) < 8 THEN Len(ss) ELSE 8)

\* const contentChunks = sentences.slice(1, Math.min(sentences.length, 8))
contentChunks(ss) ==
  Slice(ss, 1, IF Len(ss) < 8 THEN Len(ss) ELSE 8)

\* chunks[i] || placeholder, i a 0-based index.
ChunkOr(chunks, i, placeholder) ==
  IF i + 1 <= Len(chunks) /\ chunks[i + 1] # << >>
  THEN chunks[i + 1]
  ELSE <<placeholder>>

\* contentChunks.slice(3, 6).map((chunk, i) => `${i + 1}. ${chunk || "..."}`)
\*   .join('\n\n')
RECURSIVE Implications(_, _)
Implications(points, i) ==
  IF i > Len(points) THEN << >>
  ELSE (IF i > 1 THEN <<"\n\n">> ELSE << >>)
       \o <<ToString(i), ". ">>
       \o ChunkOr(points, i - 1,
                  "This aspect requires careful consideration of multiple factors.")
       \o Implications(points, i + 1)

mainContent(chunks) ==
      <<"Now, let me walk you through the key points of this story.\n\n[TRANSITION MUSIC - 3 SECONDS]\n\nFirst, let's establish the context. ">>
      \o ChunkOr(chunks, 0, "We're looking at a development that has significant implications.")
      \o <<"\n\n">>
      \o ChunkOr(chunks, 1, "The details are quite compelling when you examine them closely.")
      \o <<" This brings us to an important consideration that affects how we should interpret these findings.\n\n[TRANSITION MUSIC - 3 SECONDS]\n\nWhat's particularly interesting is how this connects to broader trends we've been seeing. ">>
      \o ChunkOr(chunks, 2, "The patterns are becoming clearer as more information emerges.")
      \o <<"\n\nLet me break down the key implications:\n\n">>
      \o Implications(Slice(chunks, 3, 6), 1)
      \o <<"\n\n[TRANSITION MUSIC - 3 SECONDS]\n\nNow, you might be wondering what this means for the future. ">>
      \o ChunkOr(chunks, 6, "The trajectory suggests several possible outcomes that are worth monitoring.")
      \o <<" \n\nThis is where things get really interesting, and why I wanted to share this story with you today.">>

outro(showName, topics) ==
      <<"[OUTRO MUSIC FADES IN]\n\nSo, what's the takeaway from all of this? I think the key insight is that ">>
      \o ChunkOr(topics, 0, "this topic")
      \o <<" continues to evolve in ways that demand our attention.\n\nAs we wrap up today's episode, I encourage you to think about how this might impact your own perspective on ">>
      \o ChunkOr(topics, 1, "related matters")
      \o <<".\n\n[MUSIC BUILDS]\n\nThanks for joining me on ">>
      \o ShowNameOrDefault(showName)
      \o <<". If you enjoyed today's discussion, don't forget to subscribe and share this episode with friends who might find it interesting.\n\nNext time, we'll be exploring another compelling story, so make sure you're subscribed so you don't miss it.\n\nUntil then, keep questioning, keep learning, and I'll see you in the next episode.\n\n[OUTRO MUSIC FADES OUT]">>

\* const estimatedDuration = durationMap[duration] || 15.  A duration that
\* names an inherited property yields that (truthy) object, on which the
\* arithmetic below gives NaN.
estimatedDuration(duration) ==
  IF duration \in OwnDurations THEN [nan |-> FALSE, val |-> durationMap(duration)]
  ELSE IF duration \in ObjectPrototypeKeys THEN [nan |-> TRUE, val |-> 0]
       ELSE [nan |-> FALSE, val |-> 15]

\* `${Math.floor(estimatedDuration * tenths / 10)}:00`
MinuteMark(est, tenths) ==
  IF est.nan THEN "NaN:00" ELSE ToString((est.val * tenths) \div 10) \o ":00"

timestamps(duration) ==
  LET est == estimatedDuration(duration)
  IN  << [time |-> "0:00", topic |-> "Introduction"],
         [time |-> "1:30", topic |-> "Topic Overview"],
         [time |-> MinuteMark(est, 2), topic |-> "Key Points Analysis"],
         [time |-> MinuteMark(est, 5), topic |-> "Main Discussion"],
         [time |-> MinuteMark(est, 8), topic |-> "Implications & Takeaways"],
         [time |-> IF est.nan THEN "NaN:00" ELSE ToString(est.val - 2) \o ":00",
          topic |-> "Wrap-up & Next Episode"] >>

\* duration.replace('+', ''): the first '+' only.
RemoveFirstPlus(duration) ==
  LET at == {i \in 1..Len(duration) : duration[i] = "+"}
  IN  IF at = {} THEN duration
      ELSE LET k == CHOOSE i \in at : \A j \in at : i <= j
           IN  SubSeq(duration, 1, k - 1) \o SubSeq(duration, k + 1, Len(duration))

\* Variant: the extracted topics are returned without the placeholder default.
ShowNotesKeyTopicsUnpadded(topics) == topics

\* keyTopics.length > 0 ? keyTopics : ["Analysis", "Discussion", "Insights"]
ShowNotesKeyTopics(topics) ==
  IF Len(topics) > 0 THEN topics
  ELSE << <<"Analysis">>, <<"Discussion">>, <<"Insights">> >>

\* style === "interview" ? "Interview Style" : "Solo Commentary"
EpisodeFormat(style) ==
  IF style = StyleInterview THEN "Interview Style" ELSE "Solo Commentary"

generateFallbackScript(options) ==
  LET ws == words(options.content)
      ss == sentences(options.content)
      topics == keyTopics(meaningfulWords(ws))
  IN  [intro |-> intro(options.showName, firstSentence(ss), format(options.style)),
       mainContent |-> mainContent(contentChunks(ss)),
       outro |-> outro(options.showName, topics),
       showNotes |->
         [keyTopics |-> ShowNotesKeyTopics(topics),
          resources |-> << "Episode transcript available on our website",
                           "Follow us on social media for updates",
                           "Submit topic suggestions via our contact form" >>,
          timestamps |-> timestamps(options.duration),
          episodeDetails |->
            [duration |-> <<"~">> \o RemoveFirstPlus(options.duration) \o <<" minutes">>,
             category |-> category(ws),
             format |-> EpisodeFormat(options.style)]]]

(***************************************************************************)
(* The external AI call and JSON.parse.                                    *)
(***************************************************************************)
\* Response texts of the model, as the characters the model returned.
TextUnavailable == <<"S","e","r","v","i","c","e"," ","u","n","a","v","a","i","l","a","b","l","e">>
TextTruncated == <<"{","\"","i","n","t","r","o","\"",":">>
TextNull == <<"n","u","l","l">>
TextEmptyObject == <<"{","}">>
TextIntroOnly == <<"{","\"","i","n","t","r","o","\"",":","\"","H","i","\"","}">>
TextComplete ==
  <<"{", "\"", "i", "n", "t", "r", "o", "\"", ":", "\"", "H", "i", "\"", ",", "\"", "m", "a",
    "i", "n", "C", "o", "n", "t", "e", "n", "t", "\"", ":", "\"", "B", "o", "d", "y", "\"",
    ",", "\"", "o", "u", "t", "r", "o", "\"", ":", "\"", "B", "y", "e", "\"", ",", "\"", "s",
    "h", "o", "w", "N", "o", "t", "e", "s", "\"", ":", "{", "\"", "k", "e", "y", "T", "o", "p",
    "i", "c", "s", "\"", ":", "[", "\"", "A", "I", "\"", "]", ",", "\"", "r", "e", "s", "o",
    "u", "r", "c", "e", "s", "\"", ":", "[", "]", ",", "\"", "t", "i", "m", "e", "s", "t", "a",
    "m", "p", "s", "\"", ":", "[", "{", "\"", "t", "i", "m", "e", "\"", ":", "\"", "0", ":",
    "0", "0", "\"", ",", "\"", "t", "o", "p", "i", "c", "\"", ":", "\"", "I", "n", "t", "r",
    "o", "d", "u", "c", "t", "i", "o", "n", "\"", "}", "]", ",", "\"", "e", "p", "i", "s", "o",
    "d", "e", "D", "e", "t", "a", "i", "l", "s", "\"", ":", "{", "\"", "d", "u", "r", "a", "t",
    "i", "o", "n", "\"", ":", "\"", "~", "1", "5", " ", "m", "i", "n", "u", "t", "e", "s",
    "\"", ",", "\"", "c", "a", "t", "e", "g", "o", "r", "y", "\"", ":", "\"", "T", "e", "c",
    "h", "n", "o", "l", "o", "g", "y", "\"", ",", "\"", "f", "o", "r", "m", "a", "t", "\"",
    ":", "\"", "S", "o", "l", "o", " ", "C", "o", "m", "m", "e", "n", "t", "a", "r", "y", "\"",
    "}", "}", "}">>

\* The complete script with prose around it.
TextWrapped ==
  <<"H","e","r","e"," ","i","s"," ","y","o","u","r"," ","s","c","r","i","p","t",":"," ">>
    \o TextComplete \o <<" ","E","n","j","o","y","!">>

\* JavaScript's null.
JsNull == [jsNull |-> TRUE]

\* The value TextComplete denotes.
CompleteValue ==
  [intro |-> <<"Hi">>,
   mainContent |-> <<"Body">>,
   outro |-> <<"Bye">>,
   showNotes |->
     [keyTopics |-> << <<"AI">> >>,
      resources |-> << >>,
      timestamps |-> << [time |-> "0:00", topic |-> "Introduction"] >>,
      episodeDetails |->
        [duration |-> <<"~15 minutes">>,
         category |-> "Technology",
         format |-> "Solo Commentary"]]]

\* JSON.parse on the texts above: the value of each text that is JSON.  The
\* other texts (and the empty text) are not JSON: JSON.parse throws.
JsonValueOf ==
  (TextNull :> JsNull) @@ (TextEmptyObject :> [e \in {} |-> 0])
    @@ (TextIntroOnly :> [intro |-> <<"Hi">>]) @@ (TextComplete :> CompleteValue)

IsJson(text) == text \in DOMAIN JsonValueOf

JSONParse(text) == JsonValueOf[text]

\* How the awaited call ai.models.generateContent settles: it rejects, or it
\* resolves to a response whose text is undefined or a string.
AiRejected(message) == [rejected |-> TRUE, message |-> message, text |-> Undefined]
AiResolved(text) == [rejected |-> FALSE, message |-> "", text |-> text]

AiOutcomes ==
  {AiRejected("fetch failed"), AiRejected("429 Too Many Requests")}
    \cup {AiResolved(t) : t \in {Undefined, << >>, TextUnavailable, TextTruncated,
                                  TextNull, TextEmptyObject, TextIntroOnly,
                                  TextComplete, TextWrapped}}

(***************************************************************************)
(* generatePodcastScript, from the call's outcome on.                      *)
(***************************************************************************)
Returned(value) == [kind |-> "returned", value |-> value, message |-> << >>]
Threw(message) == [kind |-> "threw", value |-> JsNull, message |-> message]

\* The try block after the await: response.text, the empty check, JSON.parse.
\* The parsed value is returned as it is.
TryGenerate(outcome) ==
  IF outcome.rejected THEN Threw(<<outcome.message>>)
  ELSE IF outcome.text = Undefined \/ outcome.text = << >>
       THEN Threw(<<"Empty response from Gemini API">>)
       ELSE IF ~IsJson(outcome.text) THEN Threw(<<"SyntaxError">>)
            ELSE Returned(JSONParse(outcome.text))

\* The variant with the local fallback: catch { return generateFallbackScript(options) }
generatePodcastScript(options, outcome) ==
  LET try == TryGenerate(outcome)
  IN  IF try.kind = "threw" THEN Returned(generateFallbackScript(options))
      ELSE try

\* server/services/gemini.ts: catch { throw new Error(`Failed to generate podcast script: ...`) }
generatePodcastScriptService(options, outcome) ==
  LET try == TryGenerate(outcome)
  IN  IF try.kind = "threw"
      THEN Threw(<<"Failed to generate podcast script: ">> \o try.message)
      ELSE try

(***************************************************************************)
(* The inputs the harnesses draw from.                                     *)
(***************************************************************************)
\* The content of the specification's end-to-end scenario.
E2EContent ==
  <<"A", "r", "t", "i", "f", "i", "c", "i", "a", "l", " ", "i", "n", "t", "e", "l", "l", "i",
    "g", "e", "n", "c", "e", " ", "i", "s", " ", "t", "r", "a", "n", "s", "f", "o", "r", "m",
    "i", "n", "g", " ", "h", "e", "a", "l", "t", "h", "c", "a", "r", "e", ".", " ", "D", "o",
    "c", "t", "o", "r", "s", " ", "n", "o", "w", " ", "u", "s", "e", " ", "A", "I", " ", "d",
    "i", "a", "g", "n", "o", "s", "t", "i", "c", " ", "t", "o", "o", "l", "s", " ", "d", "a",
    "i", "l", "y", ".", " ", "P", "a", "t", "i", "e", "n", "t", " ", "o", "u", "t", "c", "o",
    "m", "e", "s", " ", "h", "a", "v", "e", " ", "i", "m", "p", "r", "o", "v", "e", "d", " ",
    "s", "i", "g", "n", "i", "f", "i", "c", "a", "n", "t", "l", "y", ".", " ", "T", "h", "i",
    "s", " ", "r", "e", "p", "r", "e", "s", "e", "n", "t", "s", " ", "a", " ", "m", "a", "j",
    "o", "r", " ", "s", "h", "i", "f", "t", " ", "i", "n", " ", "m", "e", "d", "i", "c", "i",
    "n", "e", ".">>

\* The vocabulary contents are built from: keywords of the category sets, a
\* capitalised word with a full stop attached, plain words, a stop word of
\* five letters, the empty piece (a doubled or leading blank) and punctuation.
Vocabulary ==
  {<<"a","i">>, <<"m","a","r","k","e","t">>, <<"h","e","a","l","t","h">>,
   <<"s","t","u","d","y">>, <<"H","e","a","l","t","h","c","a","r","e",".">>,
   <<"p","o","d","c","a","s","t","s">>, <<"t","h","e","s","e">>, <<>>, <<"?","!">>}

\* The pieces joined by single blanks.
RECURSIVE JoinPieces(_)
JoinPieces(ps) ==
  IF ps = << >> THEN << >>
  ELSE IF Len(ps) = 1 THEN ps[1]
       ELSE ps[1] \o <<" ">> \o JoinPieces(Tail(ps))

PieceSeqs == UNION {[1..n -> Vocabulary] : n \in 0..MaxPieces}

\* Every keyword of the five sets.
AllKeywords ==
  TechnologyKeywords \cup BusinessKeywords \cup HealthKeywords
    \cup EducationKeywords \cup ScienceKeywords

\* Each keyword as the only keyword of a content of more than ten characters.
KeywordContents ==
  {<<"T","h","e","s","e"," ">> \o k \o <<" ","p","o","d","c","a","s","t","s">> : k \in AllKeywords}

\* A content of blanks only.
ContentBlank == <<" ","\n","\t">>

\* A content whose six long words repeat unevenly.
ContentRepeats ==
  <<"s", "t", "o", "r", "i", "e", "s", " ", "m", "a", "r", "k", "e", "t", " ", "h", "e", "a",
    "l", "t", "h", " ", "m", "a", "r", "k", "e", "t", " ", "s", "t", "o", "r", "i", "e", "s",
    " ", "p", "o", "d", "c", "a", "s", "t", "s", " ", "s", "t", "o", "r", "i", "e", "s", " ",
    "e", "p", "i", "s", "o", "d", "e", "s", " ", "l", "i", "s", "t", "e", "n", "e", "r", "s">>

\* A content whose only long word names a property of Object.prototype.
ContentProto == <<"t","h","e"," ","_","_","p","r","o","t","o","_","_"," ","o","f"," ","i","t">>

\* A content with a digit-only word of five characters among its long words.
ContentDigits ==
  <<"E","p","i","s","o","d","e"," ","1","2","3","4","5"," ","c","o","v","e","r","s"," ","m","a","r","k","e","t"," ","s","t","o","r","i","e","s">>

\* A content of two long words, the first of which names a property that
\* Object.prototype has; the other occurs twice.
ContentConstructor ==
  <<"a"," ","c","o","n","s","t","r","u","c","t","o","r"," ","i","s"," ","s","o","f","t","w","a","r","e"," ","a","n","d"," ","s","o","f","t","w","a","r","e"," ","i","s"," ","c","o","d","e">>

\* A content of nine sentences of more than ten characters, with a fragment
\* ("Oh no") and runs of sentence marks between them.
ContentNine ==
  <<"T", "h", "e", " ", "f", "i", "r", "s", "t", " ", "s", "t", "o", "r", "y", " ", "o", "p",
    "e", "n", "s", " ", "h", "e", "r", "e", ".", " ", "O", "h", " ", "n", "o", "!", " ", "A",
    " ", "s", "e", "c", "o", "n", "d", " ", "p", "o", "i", "n", "t", " ", "f", "o", "l", "l",
    "o", "w", "s", " ", "i", "t", "?", " ", "T", "h", "i", "r", "d", " ", "c", "o", "m", "e",
    "s", " ", "t", "h", "e", " ", "m", "a", "r", "k", "e", "t", " ", "v", "i", "e", "w", ".",
    ".", ".", " ", "F", "o", "u", "r", "t", "h", " ", "i", "s", " ", "a", "b", "o", "u", "t",
    " ", "d", "o", "c", "t", "o", "r", "s", ".", " ", "F", "i", "f", "t", "h", " ", "c", "o",
    "v", "e", "r", "s", " ", "t", "h", "e", " ", "p", "a", "t", "i", "e", "n", "t", "s", "!",
    " ", "S", "i", "x", "t", "h", " ", "t", "u", "r", "n", "s", " ", "t", "o", " ", "s", "c",
    "h", "o", "o", "l", "s", ".", " ", "S", "e", "v", "e", "n", "t", "h", " ", "i", "s", " ",
    "o", "n", " ", "r", "e", "s", "e", "a", "r", "c", "h", "?", "!", " ", "E", "i", "g", "h",
    "t", "h", " ", "l", "o", "o", "k", "s", " ", "a", "h", "e", "a", "d", " ", "n", "o", "w",
    ".", " ", "N", "i", "n", "t", "h", " ", "c", "l", "o", "s", "e", "s", " ", "t", "h", "e",
    " ", "s", "t", "o", "r", "y", ".">>

OtherContents ==
  {ContentBlank, ContentRepeats, ContentProto, ContentDigits, ContentConstructor,
   ContentNine}

Contents ==
  {JoinPieces(ps) : ps \in PieceSeqs} \cup KeywordContents \cup OtherContents
    \cup {E2EContent}

Styles ==
  OwnStyles \cup {<<"c","o","n","s","t","r","u","c","t","o","r">>, <<"v","l","o","g">>}

Durations ==
  OwnDurations \cup {<<"4","5">>, <<"c","o","n","s","t","r","u","c","t","o","r">>}

ShowNames ==
  {Undefined, << >>, <<"M","e","d","T","e","c","h"," ","W","e","e","k","l","y">>}

\* The options the facade harness calls generatePodcastScript with.
FacadeOptions ==
  [content : {E2EContent, << >>, <<"A","I"," ","m","a","r","k","e","t">>},
   style : {StyleEducational, StyleInterview},
   duration : {Duration10to20, Duration30plus},
   showName : {Undefined, <<"M","e","d","T","e","c","h"," ","W","e","e","k","l","y">>}]

\* The modules that export a generatePodcastScript.
ModuleFallback == "unnamed/part_002"
ModuleService == "server/services/gemini.ts"

(***************************************************************************)
(* State.                                                                  *)
(***************************************************************************)
VARIABLES
  fbOptions,   \* the options of the direct call of generateFallbackScript
  fbScript,    \* what that call returned, NoScript before it
  gModule,     \* the module whose generatePodcastScript the harness called
  gOptions,    \* the options of that call
  gPc,         \* "idle", "awaiting" (the AI call is in flight) or "done"
  gAi,         \* how the AI call settled, NoOutcome before
  gResult,     \* what generatePodcastScript returned or threw, NoResult before
  apiKey,      \* whether GEMINI_API_KEY is set in the Netlify function's environment
  req,         \* per request: the handler's position and its locals
  scripts,     \* MemStorage.scripts: the records in insertion order
  fetch,       \* the direct call of fetchContentFromUrl: its position and locals
  store,       \* the last direct call of a MemStorage method and what it returned
  home         \* the Home page: its state hooks and the two mutations

vars ==
  <<fbOptions, fbScript, gModule, gOptions, gPc, gAi, gResult, apiKey, req, scripts,
    fetch, store, home>>

fbVars == <<fbOptions, fbScript>>
gVars == <<gModule, gOptions, gPc, gAi, gResult>>
sVars == <<apiKey, req, scripts>>
uVars == <<fetch, store, home>>

\* No value yet.
NoScript == [none |-> TRUE]
NoOutcome == [rejected |-> FALSE, message |-> "", text |-> <<"none">>]
NoResult == [kind |-> "none", value |-> JsNull, message |-> << >>]
NoOptions == [content |-> << >>, style |-> StyleConversational,
              duration |-> Duration10to20, showName |-> Undefined]

FallbackIdle == fbOptions = NoOptions /\ fbScript = NoScript

FacadeIdle ==
  /\ gModule = "" /\ gOptions = NoOptions /\ gPc = "idle"
  /\ gAi = NoOutcome /\ gResult = NoResult

\* The requests of the server model.
Requests == 1..NumRequests

NoResponse == [status |-> 0, body |-> [none |-> TRUE]]
NoFetch == [ok |-> FALSE, message |-> "", content |-> <<"none">>]

IdleRequest ==
  [handler |-> "none", pc |-> "idle", data |-> [none |-> TRUE], content |-> << >>,
   fetched |-> NoFetch, ai |-> NoOutcome, saved |-> [none |-> TRUE],
   response |-> NoResponse]

ServerIdle ==
  /\ apiKey = FALSE
  /\ req = [r \in Requests |-> IdleRequest]
  /\ scripts = << >>

\* fetchContentFromUrl has not been called.
FetchIdle ==
  [pc |-> "idle",
   response |-> [rejected |-> FALSE, message |-> "", ok |-> FALSE, status |-> 0,
                 statusText |-> "", dom |-> << >>],
   bodyRead |-> FALSE, loaded |-> FALSE, result |-> NoResult]

\* No record: what Map.get gives for a key the map does not have.
NoRecord == [none |-> TRUE]

\* No method of MemStorage has been called.  created lists what the calls of
\* createPodcastScript returned, in order.
StoreIdle ==
  [op |-> "none", id |-> 0, found |-> NoRecord, listed |-> << >>, created |-> << >>]

\* No request of the Home page is in flight.
NoRequest == [none |-> TRUE]

\* The Home page as it is first rendered: the useState initial values, and
\* the two mutations idle.  (podcastStyle and targetDuration are selects
\* that only ever hold one of the schema's values: they keep their initial
\* values in the model.)
HomeIdle ==
  [inputTab |-> "text", inputText |-> << >>, inputUrl |-> << >>, showName |-> << >>,
   podcastStyle |-> StyleConversational, targetDuration |-> Duration10to20,
   fetchedContent |-> JsNull, generated |-> FALSE,
   fetching |-> [pending |-> FALSE, url |-> << >>],
   generating |-> [pending |-> FALSE, data |-> NoRequest]]

(***************************************************************************)
(* The fallback synthesizer called directly.                               *)
(***************************************************************************)
InitFallback ==
  /\ fbOptions \in [content : Contents, style : Styles,
                    duration : Durations, showName : ShowNames]
  /\ fbScript = NoScript
  /\ FacadeIdle
  /\ ServerIdle
  /\ fetch = FetchIdle
  /\ store = StoreIdle
  /\ home = HomeIdle

CallFallback ==
  /\ fbScript = NoScript
  /\ fbScript' = generateFallbackScript(fbOptions)
  /\ UNCHANGED <<fbOptions, gVars, sVars, uVars>>

NextFallback == CallFallback

SpecFallback == InitFallback /\ [][NextFallback]_vars

(***************************************************************************)
(* The facade called directly: the call runs up to the awaited AI call,    *)
(* and resumes when that call settles.                                     *)
(***************************************************************************)
InitFacade ==
  /\ FallbackIdle
  /\ gModule = "" /\ gOptions \in FacadeOptions /\ gPc = "idle"
  /\ gAi = NoOutcome /\ gResult = NoResult
  /\ ServerIdle
  /\ fetch = FetchIdle
  /\ store = StoreIdle
  /\ home = HomeIdle

CallGenerate(module) ==
  /\ gPc = "idle"
  /\ gModule' = module
  /\ gPc' = "awaiting"
  /\ UNCHANGED <<gOptions, gAi, gResult, fbVars, sVars, uVars>>

AiSettles(outcome) ==
  /\ gPc = "awaiting"
  /\ gAi' = outcome
  /\ gResult' = IF gModule = ModuleFallback
                THEN generatePodcastScript(gOptions, outcome)
                ELSE generatePodcastScriptService(gOptions, outcome)
  /\ gPc' = "done"
  /\ UNCHANGED <<gModule, gOptions, fbVars, sVars, uVars>>

NextFacade ==
  \/ CallGenerate(ModuleFallback)
  \/ CallGenerate(ModuleService)
  \/ \E outcome \in AiOutcomes : AiSettles(outcome)

SpecFacade == InitFacade /\ [][NextFacade]_vars


(***************************************************************************)
(* shared/schema.ts: generateScriptSchema.                                 *)
(***************************************************************************)
\* The strings the model's requests use as sourceUrl, and z.string().url()
\* on them.
UrlArticle == <<"h","t","t","p","s",":","/","/","e","x","a","m","p","l","e",".","c","o","m","/","p","o","s","t">>
UrlMalformed == <<"n","o","t"," ","a"," ","u","r","l">>

IsUrl(u) == u = UrlArticle

\* generateScriptSchema.parse succeeds.  (wordCount and charCount, optional
\* numbers the handler only passes on, are left out of the model's bodies.)
SchemaAccepts(body) ==
  /\ body.inputContent # Undefined
  /\ Len(body.inputContent) >= 10
  /\ body.inputType \in {"text", "url"}
  /\ (body.sourceUrl # Undefined => IsUrl(body.sourceUrl))
  /\ (body.podcastStyle # Undefined => body.podcastStyle \in OwnStyles)
  /\ (body.targetDuration # Undefined => body.targetDuration \in OwnDurations)

\* The parsed value: the defaults of podcastStyle and targetDuration applied.
SchemaParse(body) ==
  [body EXCEPT
     !.podcastStyle = IF @ = Undefined THEN StyleConversational ELSE @,
     !.targetDuration = IF @ = Undefined THEN Duration10to20 ELSE @]

\* Request contents: nine characters, and a text of more than ten.
ContentShort == <<"T","o","o"," ","s","h","o","r","t">>
ContentText == <<"A","I"," ","i","s"," ","c","h","a","n","g","i","n","g"," ","t","h","e"," ","m","a","r","k","e","t",".">>

\* What fetchContentFromUrl resolves to for UrlArticle (50 characters or more).
ContentFetched ==
  <<"D","o","c","t","o","r","s"," ","s","t","u","d","y"," ","f","i","t","n","e","s","s"," ","a","t"," ","s","c","h","o","o","l",","," ","r","e","s","e","a","r","c","h"," ","s","h","o","w","s"," ","t","o","d","a","y",".">>

Body(inputContent, inputType, sourceUrl, podcastStyle) ==
  [inputContent |-> inputContent, inputType |-> inputType, sourceUrl |-> sourceUrl,
   podcastStyle |-> podcastStyle, targetDuration |-> Undefined, showName |-> Undefined]

\* The bodies posted to /api/scripts/generate.
Bodies ==
  {Body(ContentText, "text", Undefined, Undefined),
   Body(ContentShort, "text", Undefined, Undefined),
   Body(ContentText, "url", UrlArticle, Undefined),
   Body(ContentText, "url", Undefined, StyleInterview),
   Body(ContentText, "url", UrlMalformed, Undefined),
   Body(ContentText, "text", Undefined, <<"v","l","o","g">>)}

\* How the awaited fetchContentFromUrl settles.
FetchOutcomes ==
  {[ok |-> FALSE, message |-> "Failed to fetch content from URL: Failed to fetch content: 404 Not Found",
    content |-> << >>],
   [ok |-> FALSE, message |-> "Failed to fetch content from URL: Could not extract meaningful content from the URL",
    content |-> << >>],
   [ok |-> TRUE, message |-> "", content |-> ContentFetched]}

\* The outcomes of the AI call the server model draws.
ServerAiOutcomes ==
  {AiRejected("fetch failed")}
    \cup {AiResolved(t) : t \in {<< >>, TextUnavailable, TextTruncated, TextNull,
                                  TextEmptyObject, TextComplete, TextWrapped}}

(***************************************************************************)
(* MemStorage.                                                             *)
(***************************************************************************)
\* Variant: every record gets the same id.
FreshIdRepeats(records) == 1

\* randomUUID(): an id no record has.
FreshId(records) == Len(records) + 1

\* this.scripts.set(id, script): a new key is added last, the value of a key
\* the map has is replaced where it stands.
MapSet(records, record) ==
  IF \E k \in 1..Len(records) : records[k].id = record.id
  THEN [k \in 1..Len(records) |->
          IF records[k].id = record.id THEN record ELSE records[k]]
  ELSE Append(records, record)

\* this.scripts.get(id)
getPodcastScript(records, id) ==
  IF \E k \in 1..Len(records) : records[k].id = id
  THEN records[CHOOSE k \in 1..Len(records) : records[k].id = id]
  ELSE NoRecord

\* Array.from(this.scripts.values())
listPodcastScripts(records) == records

\* Variant: every record carries the data of the first record stored.
CreatedRecordSharesData(records, insertScript) ==
  [id |-> FreshId(records),
   data |-> IF records = << >> THEN insertScript.data ELSE records[1].data,
   script |-> insertScript.script]

\* createPodcastScript: the record gets its id and is put into the map.
CreatedRecord(records, insertScript) ==
  [id |-> FreshId(records), data |-> insertScript.data, script |-> insertScript.script]

(***************************************************************************)
(* POST /api/scripts/generate (Express).  The handler runs from one await  *)
(* to the next: fetchContentFromUrl, generatePodcastScript, and            *)
(* storage.createPodcastScript.                                            *)
(***************************************************************************)
Respond(r, status, body) ==
  [req[r] EXCEPT !.pc = "responded", !.response = [status |-> status, body |-> body]]

\* The request arrives: the body is validated; a url request with a
\* sourceUrl starts the fetch, any other request starts the generation.
ExpressGenerate(r, body) ==
  /\ req[r].pc = "idle"
  /\ IF ~SchemaAccepts(body)
     THEN req' = [req EXCEPT ![r] =
            [Respond(r, 500, [message |-> "Failed to generate podcast script",
                              error |-> <<"ZodError">>])
               EXCEPT !.handler = "express", !.data = body]]
     ELSE LET validatedData == SchemaParse(body)
          IN  req' = [req EXCEPT ![r] =
                [@ EXCEPT !.handler = "express",
                          !.data = validatedData,
                          !.content = validatedData.inputContent,
                          !.pc = IF validatedData.inputType = "url"
                                    /\ validatedData.sourceUrl # Undefined
                                 THEN "fetching" ELSE "generating"]]
  /\ UNCHANGED <<fbVars, gVars, apiKey, scripts, uVars>>

\* Variant: when the fetch fails the generation goes on with the submitted
\* inputContent.
ExpressFetchSettlesKeepsInput(r, fetched) ==
  /\ req[r].handler = "express"
  /\ req[r].pc = "fetching"
  /\ req' = [req EXCEPT ![r] =
       [@ EXCEPT !.fetched = fetched,
                 !.content = IF fetched.ok THEN fetched.content ELSE @,
                 !.pc = "generating"]]
  /\ UNCHANGED <<fbVars, gVars, apiKey, scripts, uVars>>

\* fetchContentFromUrl settles: a failure ends the request with status 400;
\* the fetched content replaces the submitted one and the generation starts.
ExpressFetchSettles(r, fetched) ==
  /\ req[r].handler = "express"
  /\ req[r].pc = "fetching"
  /\ IF ~fetched.ok
     THEN req' = [req EXCEPT ![r] =
            [Respond(r, 400, [message |-> "Failed to fetch content from URL",
                              error |-> <<fetched.message>>])
               EXCEPT !.fetched = fetched]]
     ELSE req' = [req EXCEPT ![r] =
            [@ EXCEPT !.fetched = fetched,
                      !.content = fetched.content,
                      !.data = [@ EXCEPT !.inputContent = fetched.content],
                      !.pc = "generating"]]
  /\ UNCHANGED <<fbVars, gVars, apiKey, scripts, uVars>>

\* The AI call settles inside generatePodcastScript (imported from
\* ./services/gemini).  What it throws ends the request with status 500;
\* what it returns is stored: createPodcastScript puts the record into the
\* map before its promise is awaited.
ExpressAiSettles(r, outcome) ==
  /\ req[r].handler = "express"
  /\ req[r].pc = "generating"
  /\ LET result == generatePodcastScriptService(
                     [content |-> req[r].content,
                      style |-> req[r].data.podcastStyle,
                      duration |-> req[r].data.targetDuration,
                      showName |-> req[r].data.showName], outcome)
     IN  IF result.kind = "threw"
         THEN /\ req' = [req EXCEPT ![r] =
                   [Respond(r, 500, [message |-> "Failed to generate podcast script",
                                     error |-> result.message])
                      EXCEPT !.ai = outcome]]
              /\ UNCHANGED scripts
         ELSE LET savedScript ==
                    CreatedRecord(scripts, [data |-> req[r].data, script |-> result.value])
              IN  /\ scripts' = MapSet(scripts, savedScript)
                  /\ req' = [req EXCEPT ![r] =
                       [@ EXCEPT !.ai = outcome, !.saved = savedScript, !.pc = "storing"]]
  /\ UNCHANGED <<fbVars, gVars, apiKey, uVars>>

\* res.json(savedScript)
ExpressRespond(r) ==
  /\ req[r].handler = "express"
  /\ req[r].pc = "storing"
  /\ req' = [req EXCEPT ![r] = Respond(r, 200, req[r].saved)]
  /\ UNCHANGED <<fbVars, gVars, apiKey, scripts, uVars>>

(***************************************************************************)
(* netlify/functions/api.ts: handler.                                      *)
(***************************************************************************)
\* A path is the sequence of its segments.
FunctionPrefix == <<".netlify", "functions", "api">>

\* event.path.replace("/.netlify/functions/api", ""): the first occurrence
\* is removed.
StripFunctionPrefix(path) ==
  LET n == Len(FunctionPrefix)
      at == {i \in 1..(Len(path) - n + 1) : SubSeq(path, i, i + n - 1) = FunctionPrefix}
  IN  IF at = {} THEN path
      ELSE LET k == CHOOSE i \in at : \A j \in at : i <= j
           IN  SubSeq(path, 1, k - 1) \o SubSeq(path, k + n, Len(path))

\* event.body: text that is not JSON, or the JSON text of an object, given
\* by the object; null is read as "{}".
MalformedBody == [json |-> FALSE, content |-> Undefined, style |-> Undefined,
                  duration |-> Undefined, showName |-> Undefined]

JsonBody(content, style) ==
  [json |-> TRUE, content |-> content, style |-> style,
   duration |-> Undefined, showName |-> Undefined]

Event(httpMethod, path, body) == [httpMethod |-> httpMethod, path |-> path, body |-> body]

GeneratePath == FunctionPrefix \o <<"scripts", "generate">>

Events ==
  {Event("OPTIONS", GeneratePath, JsonBody(Undefined, Undefined)),
   Event("POST", GeneratePath, JsonBody(ContentText, StyleInterview)),
   Event("POST", GeneratePath, JsonBody(ContentShort, Undefined)),
   Event("POST", GeneratePath, JsonBody(Undefined, Undefined)),
   Event("POST", GeneratePath, JsonBody(<< >>, Undefined)),
   Event("POST", GeneratePath, MalformedBody),
   Event("GET", GeneratePath, JsonBody(ContentText, Undefined)),
   Event("POST", FunctionPrefix \o <<"scripts">>, JsonBody(ContentText, Undefined))}

\* text.indexOf(c) and text.lastIndexOf(c), 0-based, -1 when c is absent.
IndexOf(text, c) ==
  LET at == {i \in 1..Len(text) : text[i] = c}
  IN  IF at = {} THEN -1 ELSE (CHOOSE i \in at : \A j \in at : i <= j) - 1

LastIndexOf(text, c) ==
  LET at == {i \in 1..Len(text) : text[i] = c}
  IN  IF at = {} THEN -1 ELSE (CHOOSE i \in at : \A j \in at : i >= j) - 1

NetlifyError(r, message) ==
  Respond(r, 500, [error |-> "Internal server error", message |-> message])

\* The handler up to the AI call: the preflight answer, the route, the body,
\* the content check and the API key.
NetlifyInvoke(r, event) ==
  /\ req[r].pc = "idle"
  /\ LET path == StripFunctionPrefix(event.path)
         started == [req[r] EXCEPT !.handler = "netlify", !.data = event]
     IN  req' = [req EXCEPT ![r] =
           IF event.httpMethod = "OPTIONS"
           THEN [started EXCEPT !.pc = "responded", !.response = [status |-> 200, body |-> ""]]
           ELSE IF ~(path = <<"scripts", "generate">> /\ event.httpMethod = "POST")
           THEN [started EXCEPT !.pc = "responded",
                                !.response = [status |-> 404, body |-> [error |-> "Route not found"]]]
           ELSE IF ~event.body.json
           THEN [started EXCEPT !.pc = "responded",
                                !.response = [status |-> 500,
                                              body |-> [error |-> "Internal server error",
                                                        message |-> <<"SyntaxError">>]]]
           ELSE IF event.body.content = Undefined \/ event.body.content = << >>
           THEN [started EXCEPT !.pc = "responded",
                                !.response = [status |-> 400, body |-> [error |-> "Content is required"]]]
           ELSE IF ~apiKey
           THEN [started EXCEPT !.pc = "responded",
                                !.response = [status |-> 500,
                                              body |-> [error |-> "Gemini API key not configured"]]]
           ELSE [started EXCEPT !.pc = "generating", !.content = event.body.content]]
  /\ UNCHANGED <<fbVars, gVars, apiKey, scripts, uVars>>

\* model.generateContent settles: the text between the first '{' and the
\* last '}' is parsed and sent back; anything thrown ends in status 500.
NetlifyAiSettles(r, outcome) ==
  /\ req[r].handler = "netlify"
  /\ req[r].pc = "generating"
  /\ outcome.rejected \/ outcome.text # Undefined
  /\ LET text == outcome.text
         jsonStart == IndexOf(text, "{")
         jsonEnd == LastIndexOf(text, "}") + 1
         jsonText == SubSeq(text, jsonStart + 1, jsonEnd)
         answered ==
           IF outcome.rejected THEN NetlifyError(r, <<outcome.message>>)
           ELSE IF jsonStart # -1 /\ jsonEnd > jsonStart
                THEN IF IsJson(jsonText)
                     THEN Respond(r, 200, JSONParse(jsonText))
                     ELSE NetlifyError(r, <<"SyntaxError">>)
                ELSE NetlifyError(r, <<"Failed to parse AI response">>)
     IN  req' = [req EXCEPT ![r] = [answered EXCEPT !.ai = outcome]]
  /\ UNCHANGED <<fbVars, gVars, apiKey, scripts, uVars>>

(***************************************************************************)
(* The server: requests to both handlers, interleaved at their awaits.     *)
(***************************************************************************)
InitServer ==
  /\ FallbackIdle
  /\ FacadeIdle
  /\ apiKey \in BOOLEAN
  /\ req = [r \in Requests |-> IdleRequest]
  /\ scripts = << >>
  /\ fetch = FetchIdle
  /\ store = StoreIdle
  /\ home = HomeIdle

NextServer ==
  \E r \in Requests :
    \/ \E body \in Bodies : ExpressGenerate(r, body)
    \/ \E fetched \in FetchOutcomes : ExpressFetchSettles(r, fetched)
    \/ \E outcome \in ServerAiOutcomes : ExpressAiSettles(r, outcome)
    \/ ExpressRespond(r)
    \/ \E event \in Events : NetlifyInvoke(r, event)
    \/ \E outcome \in ServerAiOutcomes : NetlifyAiSettles(r, outcome)

SpecServer == InitServer /\ [][NextServer]_vars

(***************************************************************************)
(* fetchContentFromUrl: texts, the parsed document and the queries on it.  *)
(***************************************************************************)
\* A text is a sequence of chunks: a word (characters that are not
\* whitespace) or a run of n copies of one whitespace character.
Word(s) == [ws |-> FALSE, s |-> s, n |-> Len(s)]
Space(c, n) == [ws |-> TRUE, s |-> c, n |-> n]

\* String.prototype.length
RECURSIVE TextLength(_)
TextLength(t) == IF t = << >> THEN 0 ELSE t[1].n + TextLength(Tail(t))

\* String.prototype.trim
TrimText(t) ==
  LET solid == {i \in 1..Len(t) : ~t[i].ws}
  IN  IF solid = {} THEN << >>
      ELSE SubSeq(t, CHOOSE i \in solid : \A j \in solid : i <= j,
                     CHOOSE i \in solid : \A j \in solid : i >= j)

\* .replace(/\s+/g, ' '): every maximal run of whitespace becomes one space.
RECURSIVE CollapseWhitespace(_)
CollapseWhitespace(t) ==
  IF t = << >> THEN << >>
  ELSE IF ~t[1].ws THEN <<t[1]>> \o CollapseWhitespace(Tail(t))
  ELSE IF Len(t) > 1 /\ t[2].ws THEN CollapseWhitespace(Tail(t))
  ELSE <<Space(" ", 1)>> \o CollapseWhitespace(Tail(t))

\* .replace(/\n\s*\n/g, '\n\n'): within a run of whitespace, what lies from
\* its first line feed to its last one becomes two line feeds.  A single
\* chunk of two or more line feeds is such a stretch by itself.
CleanLineBreaks(t) ==
  LET Feed(i) == t[i].ws /\ t[i].s = "\n"
      AllSpace(a, b) == \A k \in a..b : t[k].ws
      Inside(i) == \E a \in 1..(i-1) : \E b \in (i+1)..Len(t) :
                     Feed(a) /\ Feed(b) /\ AllSpace(a, b)
      FirstOfStretch(i) ==
        Feed(i) /\ ~(\E a \in 1..(i-1) : Feed(a) /\ AllSpace(a, i))
                /\ ((\E b \in (i+1)..Len(t) : Feed(b) /\ AllSpace(i, b)) \/ t[i].n >= 2)
      LastOfStretch(i) ==
        Feed(i) /\ ~(\E b \in (i+1)..Len(t) : Feed(b) /\ AllSpace(i, b))
                /\ (\E a \in 1..(i-1) : Feed(a) /\ AllSpace(a, i))
      Piece(i) ==
        IF FirstOfStretch(i) /\ t[i].n >= 2
             /\ ~(\E b \in (i+1)..Len(t) : Feed(b) /\ AllSpace(i, b))
          THEN <<Space("\n", 2)>>
        ELSE IF FirstOfStretch(i) \/ LastOfStretch(i) THEN <<Space("\n", 1)>>
        ELSE IF Inside(i) THEN << >>
        ELSE <<t[i]>>
      Pieces[i \in 0..Len(t)] == IF i = 0 THEN << >> ELSE Pieces[i-1] \o Piece(i)
  IN  Pieces[Len(t)]

\* Variant: the runs of whitespace are not collapsed.
CleanContentLineBreaksOnly(t) == TrimText(CleanLineBreaks(t))
\* The clean-up of the extracted content.
CleanContent(t) == TrimText(CleanLineBreaks(CollapseWhitespace(t)))

\* The parsed document, as cheerio.load(html) holds it: the nodes in document
\* order, each with the key of its parent (0 for the root element).  An
\* element has a tag, classes and an id; a text node has the tag "#text".
Element(key, parent, tag, classes, id) ==
  [key |-> key, parent |-> parent, tag |-> tag, classes |-> classes, id |-> id,
   text |-> << >>]
TextNode(key, parent, text) ==
  [key |-> key, parent |-> parent, tag |-> "#text", classes |-> {}, id |-> "",
   text |-> text]

\* Selectors: a tag name, a .class or an #id.
Tag(name) == [by |-> "tag", name |-> name]
Class(name) == [by |-> "class", name |-> name]
Id(name) == [by |-> "id", name |-> name]

Matches(node, selector) ==
  /\ node.tag # "#text"
  /\ CASE selector.by = "tag" -> node.tag = selector.name
       [] selector.by = "class" -> selector.name \in node.classes
       [] selector.by = "id" -> node.id = selector.name

\* The positions of the nodes of dom that are node i or lie within it.
RECURSIVE IsWithin(_, _, _)
IsWithin(dom, k, i) ==
  \/ k = i
  \/ /\ dom[k].parent # 0
     /\ IsWithin(dom, CHOOSE p \in 1..Len(dom) : dom[p].key = dom[k].parent, i)

\* $(selectors): the elements, among the nodes still in the document, that
\* match one of the selectors, in document order.
Select(dom, live, selectors) ==
  {i \in live : \E s \in selectors : Matches(dom[i], s)}

\* $('script, style, nav, footer, aside, .nav, .footer, .sidebar')
NoiseSelectors ==
  {Tag("script"), Tag("style"), Tag("nav"), Tag("footer"), Tag("aside"),
   Class("nav"), Class("footer"), Class("sidebar")}

\* .remove(): the nodes left in the document once the selected elements and
\* all that lies within them are taken out.
Remove(dom, live, selected) ==
  {k \in live : ~(\E i \in selected : IsWithin(dom, k, i))}

\* .text() of one element: the texts of the text nodes within it, in order.
ElementText(dom, live, i) ==
  LET Own(k) == IF k \in live /\ dom[k].tag = "#text" /\ IsWithin(dom, k, i)
                THEN dom[k].text ELSE << >>
      Upto[k \in 0..Len(dom)] == IF k = 0 THEN << >> ELSE Upto[k-1] \o Own(k)
  IN  Upto[Len(dom)]

\* .text() of a selection: the texts of its elements, one after the other.
SelectionText(dom, live, selected) ==
  LET Upto[k \in 0..Len(dom)] ==
        IF k = 0 THEN << >>
        ELSE Upto[k-1] \o (IF k \in selected THEN ElementText(dom, live, k) ELSE << >>)
  IN  Upto[Len(dom)]

\* .first()
First(selected) ==
  IF selected = {} THEN {} ELSE {CHOOSE i \in selected : \A j \in selected : i <= j}

\* title = $('title').text() || $('h1').first().text() || 'Untitled Article'
ExtractTitle(dom, live) ==
  LET fromTitle == SelectionText(dom, live, Select(dom, live, {Tag("title")}))
      fromHeading == SelectionText(dom, live, First(Select(dom, live, {Tag("h1")})))
  IN  IF fromTitle # << >> THEN fromTitle
      ELSE IF fromHeading # << >> THEN fromHeading
      ELSE <<Word("Untitled"), Space(" ", 1), Word("Article")>>

\* Variant: main is tried before article.
contentSelectorsMainFirst ==
  <<Tag("main"), Tag("article"), Class("content"), Class("article-content"),
    Class("post-content"), Class("entry-content"), Id("content"),
    Class("story-body"), Class("article-body")>>
contentSelectors ==
  <<Tag("article"), Tag("main"), Class("content"), Class("article-content"),
    Class("post-content"), Class("entry-content"), Id("content"),
    Class("story-body"), Class("article-body")>>

\* element.text().trim().length > 100
MinSelectorTextLength == 100

\* content.length < 50
MinContentLength == 50

\* Variant: no selector is tried, the content is always the body's text.
SelectContentNever(dom, live) == << >>

\* The loop over contentSelectors: the trimmed text of the first selector
\* with an element and more than 100 characters of trimmed text, '' if none.
SelectContent(dom, live) ==
  LET Trimmed(s) == TrimText(SelectionText(dom, live, Select(dom, live, {contentSelectors[s]})))
      found == {s \in 1..Len(contentSelectors) :
                  /\ Select(dom, live, {contentSelectors[s]}) # {}
                  /\ TextLength(Trimmed(s)) > MinSelectorTextLength}
  IN  IF found = {} THEN << >>
      ELSE Trimmed(CHOOSE s \in found : \A o \in found : s <= o)

\* if (!content) content = $('body').text().trim()
ContentOrBody(dom, live, content) ==
  IF content = << >>
  THEN TrimText(SelectionText(dom, live, Select(dom, live, {Tag("body")})))
  ELSE content

\* content.trim().split(/\s+/).length: the pieces between the runs of
\* whitespace; the empty string splits into one piece.
WordCount(content) ==
  LET t == TrimText(content)
  IN  1 + Cardinality({i \in 2..Len(t) : t[i].ws /\ ~t[i-1].ws})

\* Variant: only an empty content is refused.
TooShortWhenEmpty(content) == content = << >>

\* if (content.length < 50) throw ...
TooShort(content) == TextLength(content) < MinContentLength

\* catch (error) { throw new Error(`Failed to fetch content from URL: ${error.message}`) }
FetchThrew(message) == Threw(<<"Failed to fetch content from URL: ">> \o message)

\* From cheerio.load(html) to the return statement.
ExtractFrom(dom) ==
  LET all == 1..Len(dom)
      live == Remove(dom, all, Select(dom, all, NoiseSelectors))
      title == ExtractTitle(dom, live)
      content == CleanContent(ContentOrBody(dom, live, SelectContent(dom, live)))
  IN  IF TooShort(content)
      THEN FetchThrew(<<"Could not extract meaningful content from the URL">>)
      ELSE Returned([title |-> TrimText(title), content |-> content,
                     wordCount |-> WordCount(content)])

\* How the awaited fetch(url) settles: it rejects, or it resolves to a
\* response with a status and a body, which parses to a document.
FetchRejected(message) ==
  [rejected |-> TRUE, message |-> message, ok |-> FALSE, status |-> 0,
   statusText |-> "", dom |-> << >>]
Response(status, statusText, dom) ==
  [rejected |-> FALSE, message |-> "", ok |-> status \in 200..299, status |-> status,
   statusText |-> statusText, dom |-> dom]

\* The call's state: where it is, the response it got, whether
\* response.text() and cheerio.load() have been called, and how it ended.
FetchState(pc, response, bodyRead, loaded, result) ==
  [pc |-> pc, response |-> response, bodyRead |-> bodyRead, loaded |-> loaded,
   result |-> result]

\* Variant: the status is not looked at, the body is read whatever it is.
AfterResponseUnchecked(response) ==
  IF response.rejected
  THEN FetchState("done", response, FALSE, FALSE, FetchThrew(<<response.message>>))
  ELSE FetchState("reading", response, FALSE, FALSE, NoResult)

\* const response = await fetch(url); if (!response.ok) throw ...
AfterResponse(response) ==
  IF response.rejected
  THEN FetchState("done", response, FALSE, FALSE, FetchThrew(<<response.message>>))
  ELSE IF ~response.ok
       THEN FetchState("done", response, FALSE, FALSE,
                       FetchThrew(<<"Failed to fetch content: ", ToString(response.status),
                                    " ", response.statusText>>))
       ELSE FetchState("reading", response, FALSE, FALSE, NoResult)

\* const html = await response.text(); const $ = cheerio.load(html); ...
AfterBody(response) ==
  FetchState("done", response, TRUE, TRUE, ExtractFrom(response.dom))

\* response.text() rejects: the body could not be read.
AfterBodyFailed(response, message) ==
  FetchState("done", response, TRUE, FALSE, FetchThrew(<<message>>))

(***************************************************************************)
(* The documents and responses fetchContentFromUrl is given.               *)
(***************************************************************************)
\* An article of 115 characters.
ArticleLong ==
  <<Word("Hospitals"), Space(" ", 1), Word("across"), Space(" ", 1), Word("the"),
    Space(" ", 1), Word("region"), Space(" ", 1), Word("are"), Space(" ", 1),
    Word("adopting"), Space(" ", 1), Word("diagnostic"), Space(" ", 1), Word("software"),
    Space(" ", 1), Word("that"), Space(" ", 1), Word("reads"), Space(" ", 1),
    Word("scans"), Space(" ", 1), Word("within"), Space(" ", 1), Word("seconds"),
    Space(" ", 1), Word("and"), Space(" ", 1), Word("flags"), Space(" ", 1),
    Word("urgent"), Space(" ", 1), Word("cases")>>

\* An article of 104 characters, 40 of them one run of line feeds: 65
\* characters once cleaned.
ArticlePaddedMid ==
  <<Word("Clinics"), Space(" ", 1), Word("report"), Space(" ", 1), Word("shorter"),
    Space(" ", 1), Word("waiting"), Space(" ", 1), Word("times"), Space("\n", 40),
    Word("after"), Space(" ", 1), Word("the"), Space(" ", 1), Word("new"), Space(" ", 1),
    Word("triage"), Space(" ", 1), Word("rollout")>>

\* An article of 128 characters, 120 of them whitespace: 9 once cleaned.
ArticlePaddedShort ==
  <<Space(" ", 2), Word("Tiny"), Space("\n", 60), Space(" ", 60), Word("text"), Space("\n", 1)>>

\* An article of 10 characters.
ArticleShort == <<Word("Short"), Space(" ", 1), Word("note")>>

\* A main content area of 117 characters.
MainLong ==
  <<Word("Subscribe"), Space(" ", 1), Word("to"), Space(" ", 1), Word("our"),
    Space(" ", 1), Word("newsletter"), Space(" ", 1), Word("for"), Space(" ", 1),
    Word("weekly"), Space(" ", 1), Word("updates"), Space(" ", 1), Word("and"),
    Space(" ", 1), Word("more"), Space(" ", 1), Word("stories"), Space(" ", 1),
    Word("from"), Space(" ", 1), Word("the"), Space(" ", 1), Word("newsroom"),
    Space(" ", 1), Word("every"), Space(" ", 1), Word("single"), Space(" ", 1),
    Word("Friday"), Space(" ", 1), Word("morning"), Space(" ", 1), Word("at"),
    Space(" ", 1), Word("nine")>>

\* An article of exactly 100 characters.
ArticleHundred ==
  <<Word("Nurses"), Space(" ", 1), Word("in"), Space(" ", 1), Word("two"), Space(" ", 1),
    Word("wards"), Space(" ", 1), Word("tested"), Space(" ", 1), Word("the"),
    Space(" ", 1), Word("triage"), Space(" ", 1), Word("tablet"), Space(" ", 1),
    Word("for"), Space(" ", 1), Word("a"), Space(" ", 1), Word("month"), Space(" ", 1),
    Word("and"), Space(" ", 1), Word("logged"), Space(" ", 1), Word("every"),
    Space(" ", 1), Word("delay"), Space(" ", 1), Word("they"), Space(" ", 1),
    Word("met"), Space(" ", 1), Word("on"), Space(" ", 1), Word("the"), Space(" ", 1),
    Word("ways")>>

\* A story body of 118 characters.
StoryLong ==
  <<Word("Editors"), Space(" ", 1), Word("confirmed"), Space(" ", 1), Word("that"),
    Space(" ", 1), Word("the"), Space(" ", 1), Word("regional"), Space(" ", 1),
    Word("health"), Space(" ", 1), Word("board"), Space(" ", 1), Word("will"),
    Space(" ", 1), Word("publish"), Space(" ", 1), Word("the"), Space(" ", 1),
    Word("full"), Space(" ", 1), Word("audit"), Space(" ", 1), Word("of"), Space(" ", 1),
    Word("the"), Space(" ", 1), Word("pilot"), Space(" ", 1), Word("next"),
    Space(" ", 1), Word("spring"), Space(" ", 1), Word("once"), Space(" ", 1),
    Word("reviews"), Space(" ", 1), Word("end")>>

ParagraphShort == <<Word("More"), Space(" ", 1), Word("soon")>>
ParagraphLong ==
  <<Word("Readers"), Space(" ", 1), Word("asked"), Space(" ", 1), Word("how"),
    Space(" ", 1), Word("the"), Space(" ", 1), Word("pilot"), Space(" ", 1), Word("was"),
    Space(" ", 1), Word("funded"), Space(" ", 1), Word("and"), Space(" ", 1),
    Word("who"), Space(" ", 1), Word("reviewed"), Space(" ", 1), Word("it")>>

\* The text of the noise elements.
NoiseText == <<Word("NOISE")>>

\* No such element in the document.
AbsentText == <<[ws |-> TRUE, s |-> "absent", n |-> 0]>>

TitleTexts == {AbsentText, << >>, <<Space(" ", 2)>>, <<Word("Clinic"), Space(" ", 1), Word("News")>>}
HeadingTexts == {AbsentText, <<Space("\n", 1)>>, <<Word("Triage"), Space(" ", 1), Word("Today")>>}
ArticleTexts ==
  {AbsentText, ArticleLong, ArticlePaddedMid, ArticlePaddedShort, ArticleShort,
   ArticleHundred}

\* An element with one text node, or nothing when the text is absent.  An
\* empty text leaves the element without a text node.
Leaf(key, parent, tag, classes, text) ==
  IF text = AbsentText THEN << >>
  ELSE <<Element(key, parent, tag, classes, "")>>
       \o (IF text = << >> THEN << >> ELSE <<TextNode(key + 1, key, text)>>)

\* html > head > title, body > nav, script, h1, article, main or
\* div.content or div.article-body followed by div#content, p, aside,
\* div.sidebar, footer.
Document(title, heading, article, other, noise, paragraph) ==
  <<Element(1, 0, "html", {}, ""), Element(2, 1, "head", {}, "")>>
  \o Leaf(3, 2, "title", {}, title)
  \o <<Element(5, 1, "body", {}, "")>>
  \o (IF noise THEN Leaf(6, 5, "nav", {}, NoiseText) \o Leaf(8, 5, "script", {}, NoiseText)
      ELSE << >>)
  \o Leaf(10, 5, "h1", {}, heading)
  \o Leaf(12, 5, "article", {}, article)
  \o (CASE other = "main" -> Leaf(14, 5, "main", {}, MainLong)
        [] other = "content" -> Leaf(14, 5, "div", {"content", "wide"}, MainLong)
        [] other = "late" ->
             Leaf(14, 5, "div", {"article-body"}, MainLong)
             \o <<Element(24, 5, "div", {}, "content"), TextNode(25, 24, StoryLong)>>
        [] OTHER -> << >>)
  \o Leaf(16, 5, "p", {}, paragraph)
  \o (IF noise
      THEN Leaf(18, 5, "aside", {}, NoiseText) \o Leaf(20, 5, "div", {"sidebar"}, NoiseText)
           \o Leaf(22, 5, "footer", {}, NoiseText)
      ELSE << >>)

Documents ==
  {Document(title, heading, article, other, noise, paragraph) :
     title \in TitleTexts, heading \in HeadingTexts, article \in ArticleTexts,
     other \in {"none", "main", "content", "late"}, noise \in BOOLEAN,
     paragraph \in {ParagraphShort, ParagraphLong}}

\* The page a server sends with an error status.
ErrorPage ==
  Document(<<Word("Error")>>, AbsentText, ArticleLong, "none", FALSE, ParagraphShort)

Responses ==
  {FetchRejected("fetch failed"),
   Response(404, "Not Found", ErrorPage),
   Response(500, "Internal Server Error", ErrorPage)}
    \cup {Response(200, "OK", dom) : dom \in Documents}

(***************************************************************************)
(* fetchContentFromUrl called directly: the call runs up to the awaited    *)
(* fetch, then up to the awaited response.text(), then to its end.         *)
(***************************************************************************)
InitFetch ==
  /\ FallbackIdle
  /\ FacadeIdle
  /\ ServerIdle
  /\ fetch = FetchIdle
  /\ store = StoreIdle
  /\ home = HomeIdle

CallFetch ==
  /\ fetch.pc = "idle"
  /\ fetch' = [fetch EXCEPT !.pc = "fetching"]
  /\ UNCHANGED <<fbVars, gVars, sVars, store, home>>

FetchSettles(response) ==
  /\ fetch.pc = "fetching"
  /\ fetch' = AfterResponse(response)
  /\ UNCHANGED <<fbVars, gVars, sVars, store, home>>

BodySettles ==
  /\ fetch.pc = "reading"
  /\ fetch' = AfterBody(fetch.response)
  /\ UNCHANGED <<fbVars, gVars, sVars, store, home>>

BodyFails ==
  /\ fetch.pc = "reading"
  /\ fetch' = AfterBodyFailed(fetch.response, "terminated")
  /\ UNCHANGED <<fbVars, gVars, sVars, store, home>>

NextFetch ==
  \/ CallFetch
  \/ \E response \in Responses : FetchSettles(response)
  \/ BodySettles
  \/ BodyFails

SpecFetch == InitFetch /\ [][NextFetch]_vars

(***************************************************************************)
(* MemStorage called directly: any sequence of its three methods.          *)
(***************************************************************************)
\* The values createPodcastScript is called with.
InsertScripts ==
  {[data |-> SchemaParse(body), script |-> CompleteValue] :
     body \in {Body(ContentText, "text", Undefined, Undefined),
               Body(ContentText, "text", Undefined, StyleInterview),
               Body(ContentText, "url", UrlArticle, Undefined)}}

InitStorage ==
  /\ FallbackIdle
  /\ FacadeIdle
  /\ ServerIdle
  /\ fetch = FetchIdle
  /\ store = StoreIdle
  /\ home = HomeIdle

StorageCreate(insertScript) ==
  /\ Len(store.created) < MaxScripts
  /\ LET script == CreatedRecord(scripts, insertScript)
     IN  /\ scripts' = MapSet(scripts, script)
         /\ store' = [op |-> "create", id |-> script.id, found |-> script,
                      listed |-> << >>, created |-> Append(store.created, script)]
  /\ UNCHANGED <<fbVars, gVars, apiKey, req, fetch, home>>

StorageGet(id) ==
  /\ store' = [store EXCEPT !.op = "get", !.id = id,
                            !.found = getPodcastScript(scripts, id),
                            !.listed = << >>]
  /\ UNCHANGED <<fbVars, gVars, sVars, fetch, home>>

StorageList ==
  /\ store' = [store EXCEPT !.op = "list", !.id = 0, !.found = NoRecord,
                            !.listed = listPodcastScripts(scripts)]
  /\ UNCHANGED <<fbVars, gVars, sVars, fetch, home>>

NextStorage ==
  \/ \E insertScript \in InsertScripts : StorageCreate(insertScript)
  \/ \E id \in 1..(MaxScripts + 1) : StorageGet(id)
  \/ StorageList

SpecStorage == InitStorage /\ [][NextStorage]_vars

(***************************************************************************)
(* The Home page (client): the handlers of its controls and the callbacks  *)
(* of fetchContentMutation and generateScriptMutation.                     *)
(***************************************************************************)
\* What the user types: nothing, nine characters, the same between blanks,
\* and a text of more than ten characters; no URL, a URL, and text that is
\* not a URL; no show name, and a show name.
ContentPadded == <<" ">> \o ContentShort \o <<" ">>
HomeTexts == {<< >>, ContentShort, ContentPadded, ContentText}
HomeUrls == {<< >>, UrlArticle, UrlMalformed}
HomeShowNames == {<< >>, <<"T","e","c","h"," ","T","o","d","a","y">>}

\* What POST /api/content/fetch answers with for a URL it could fetch.
FetchedArticle ==
  [title |-> <<"C","l","i","n","i","c"," ","N","e","w","s">>,
   content |-> ContentFetched, wordCount |-> 9]

\* <Tabs onValueChange={(value) => setInputTab(value)}>
HomeSetInputTab(tab) ==
  /\ home' = [home EXCEPT !.inputTab = tab]
  /\ UNCHANGED <<fbVars, gVars, sVars, fetch, store>>

\* The textarea of the text panel, and its Clear button (the empty text).
HomeSetInputText(text) ==
  /\ home.inputTab = "text"
  /\ home' = [home EXCEPT !.inputText = text]
  /\ UNCHANGED <<fbVars, gVars, sVars, fetch, store>>

\* The input of the URL panel.  It is not part of a form: nothing validates
\* what is typed.
HomeSetInputUrl(url) ==
  /\ home.inputTab = "url"
  /\ home' = [home EXCEPT !.inputUrl = url]
  /\ UNCHANGED <<fbVars, gVars, sVars, fetch, store>>

HomeSetShowName(name) ==
  /\ home' = [home EXCEPT !.showName = name]
  /\ UNCHANGED <<fbVars, gVars, sVars, fetch, store>>

\* The Fetch button, disabled while a fetch is pending.
handleFetchContent ==
  /\ home.inputTab = "url"
  /\ ~home.fetching.pending
  /\ home' = IF home.inputUrl = << >> THEN home
             ELSE [home EXCEPT !.fetching = [pending |-> TRUE, url |-> home.inputUrl]]
  /\ UNCHANGED <<fbVars, gVars, sVars, fetch, store>>

\* fetchContentMutation settles: onSuccess stores the fetched content (the
\* server can only have fetched a URL), onError shows a toast.
HomeFetchSettles(ok) ==
  /\ home.fetching.pending
  /\ ok => IsUrl(home.fetching.url)
  /\ home' = [home EXCEPT !.fetching = [pending |-> FALSE, url |-> << >>],
                          !.fetchedContent = IF ok THEN FetchedArticle ELSE @]
  /\ UNCHANGED <<fbVars, gVars, sVars, fetch, store>>

\* 'Use This Content', shown in the URL panel under the fetched content.
handleUseContent ==
  /\ home.inputTab = "url"
  /\ home.fetchedContent # JsNull
  /\ home' = [home EXCEPT !.inputText = home.fetchedContent.content,
                          !.inputTab = "text",
                          !.fetchedContent = JsNull]
  /\ UNCHANGED <<fbVars, gVars, sVars, fetch, store>>

\* disabled={generateScriptMutation.isPending || (!inputText && !fetchedContent)}
GenerateEnabled ==
  /\ ~home.generating.pending
  /\ home.inputText # << >> \/ home.fetchedContent # JsNull

\* const content = inputText || fetchedContent?.content
HomeContent ==
  IF home.inputText # << >> THEN home.inputText ELSE home.fetchedContent.content

\* requestData.  (wordCount and charCount, numbers computed from the content,
\* are left out as in the bodies of the server model.)
requestData ==
  [inputContent |-> HomeContent,
   inputType |-> home.inputTab,
   sourceUrl |-> IF home.inputTab = "url" THEN home.inputUrl ELSE Undefined,
   podcastStyle |-> home.podcastStyle,
   targetDuration |-> home.targetDuration,
   showName |-> IF home.showName = << >> THEN Undefined ELSE home.showName]

\* The Generate button: a content of fewer than 10 characters once trimmed
\* gets a toast, any other is sent.
handleGenerateScript ==
  /\ GenerateEnabled
  /\ home' = IF Len(Trim(HomeContent)) < 10 THEN home
             ELSE [home EXCEPT !.generating = [pending |-> TRUE, data |-> requestData]]
  /\ UNCHANGED <<fbVars, gVars, sVars, fetch, store>>

\* generateScriptMutation settles: onSuccess shows the script, onError a
\* toast.  The server only answers with a script to a body its schema
\* accepts.
HomeGenerateSettles(ok) ==
  /\ home.generating.pending
  /\ ok => SchemaAccepts(home.generating.data)
  /\ home' = [home EXCEPT !.generating = [pending |-> FALSE, data |-> NoRequest],
                          !.generated = IF ok THEN TRUE ELSE @]
  /\ UNCHANGED <<fbVars, gVars, sVars, fetch, store>>

InitHome ==
  /\ FallbackIdle
  /\ FacadeIdle
  /\ ServerIdle
  /\ fetch = FetchIdle
  /\ store = StoreIdle
  /\ home = HomeIdle

NextHome ==
  \/ \E tab \in {"text", "url"} : HomeSetInputTab(tab)
  \/ \E text \in HomeTexts : HomeSetInputText(text)
  \/ \E url \in HomeUrls : HomeSetInputUrl(url)
  \/ \E name \in HomeShowNames : HomeSetShowName(name)
  \/ handleFetchContent
  \/ \E ok \in BOOLEAN : HomeFetchSettles(ok)
  \/ handleUseContent
  \/ handleGenerateScript
  \/ \E ok \in BOOLEAN : HomeGenerateSettles(ok)

SpecHome == InitHome /\ [][NextHome]_vars

(***************************************************************************)
(* Properties.                                                             *)
(***************************************************************************)
\* A value with all four parts of a script and all the show-notes fields.
IsCompleteScript(v) ==
  /\ {"intro", "mainContent", "outro", "showNotes"} \subseteq DOMAIN v
  /\ {"keyTopics", "resources", "timestamps", "episodeDetails"} \subseteq DOMAIN v.showNotes
  /\ {"duration", "category", "format"} \subseteq DOMAIN v.showNotes.episodeDetails

\* A text with at least one character.
NonEmptyText(t) == \E i \in 1..Len(t) : Len(t[i]) > 0

\* The AI call failed: it threw, or its text is empty or is not JSON.
AiCallFailed(outcome) ==
  \/ outcome.rejected
  \/ outcome.text = Undefined
  \/ outcome.text = << >>
  \/ ~IsJson(outcome.text)

\* The direct call of generateFallbackScript has returned.
FallbackReturned == fbScript # NoScript

\* The category sets in the order of the tests, and their names.
KeywordSets ==
  <<TechnologyKeywords, BusinessKeywords, HealthKeywords, EducationKeywords,
    ScienceKeywords>>

CategoryNames == <<"Technology", "Business", "Health", "Education", "Science">>

\* The whitespace-delimited lower-cased tokens of a content.
Tokens(content) ==
  LET ws == Split(ToLowerCase(content), Whitespace)
  IN  {ws[i] : i \in 1..Len(ws)}

\* The category sets that have a keyword among the content's tokens.
MatchedSets(content) ==
  LET found == Tokens(content)
  IN  {i \in 1..5 : found \cap KeywordSets[i] # {}}

Least(S) == CHOOSE i \in S : \A j \in S : i <= j
Greatest(S) == CHOOSE i \in S : \A j \in S : i >= j

InferredCategory == fbScript.showNotes.episodeDetails.category

\* C1: generatePodcastScript never raises on a failed AI call: whenever the
\* call threw, returned no text or returned text that is not JSON, it returns
\* exactly what generateFallbackScript returns for the same options.
C1_FallbackOnFailedCall ==
  (gPc = "done" /\ AiCallFailed(gAi))
    => gResult = Returned(generateFallbackScript(gOptions))

\* The copy of generatePodcastScript that has the local fallback does so.
FallbackCopyFallsBack ==
  (gPc = "done" /\ gModule = ModuleFallback /\ AiCallFailed(gAi))
    => gResult = Returned(generateFallbackScript(gOptions))

\* C2: a generate request with valid content (at least 10 characters: the
\* submitted text, or the text extracted from the URL) whose AI call failed
\* still ends with a successful response that carries a complete script.
C2_FailureNeverSurfaces ==
  \A r \in Requests :
    (/\ req[r].pc = "responded"
     /\ req[r].ai # NoOutcome
     /\ Len(req[r].content) >= 10
     /\ AiCallFailed(req[r].ai))
      => /\ req[r].response.status = 200
         /\ IsCompleteScript(IF req[r].handler = "express"
                             THEN req[r].response.body.script
                             ELSE req[r].response.body)

\* C3: when the AI text is JSON but not a script (null, {}, a part missing),
\* generatePodcastScript returns the fallback script, so every value it
\* returns has all four parts and all show-notes fields.
C3_NeverPartial ==
  /\ (gPc = "done" /\ ~gAi.rejected /\ IsJson(gAi.text)
        /\ ~IsCompleteScript(JSONParse(gAi.text)))
       => gResult = Returned(generateFallbackScript(gOptions))
  /\ gResult.kind = "returned" => IsCompleteScript(gResult.value)

\* C4: for every content (empty, blank and punctuation-only included), style,
\* duration and show name, generateFallbackScript returns a script whose
\* intro, mainContent and outro are non-empty and whose showNotes has a
\* non-empty keyTopics list, a resources list, a timestamps list and
\* episodeDetails with duration, category and format.
C4_FallbackComplete ==
  FallbackReturned =>
    /\ IsCompleteScript(fbScript)
    /\ NonEmptyText(fbScript.intro)
    /\ NonEmptyText(fbScript.mainContent)
    /\ NonEmptyText(fbScript.outro)
    /\ Len(fbScript.showNotes.keyTopics) > 0
    /\ Len(fbScript.showNotes.resources) >= 0
    /\ Len(fbScript.showNotes.timestamps) >= 0

\* The call returned for a content without a letter: empty, blank or
\* punctuation only.
C4_Witness ==
  /\ FallbackReturned
  /\ fbOptions.content \in {<< >>, ContentBlank, <<"?", "!">>}
  /\ fbOptions.showName = << >>

\* The options of the end-to-end scenario.
E2EOptions ==
  [content |-> E2EContent, style |-> StyleEducational, duration |-> Duration10to20,
   showName |-> <<"M","e","d","T","e","c","h"," ","W","e","e","k","l","y">>]

E2EShape ==
  /\ fbScript.showNotes.episodeDetails.format = "Solo Commentary"
  /\ Len(fbScript.showNotes.timestamps) = 6
  /\ fbScript.showNotes.timestamps[1] = [time |-> "0:00", topic |-> "Introduction"]

\* C6 as claimed: the end-to-end scenario yields category "Health", format
\* "Solo Commentary" and 6 timestamps, the first {"0:00", "Introduction"}.
C6_AsClaimed ==
  (FallbackReturned /\ fbOptions = E2EOptions)
    => (InferredCategory = "Health" /\ E2EShape)

\* C6: the end-to-end scenario yields category "Technology" (its only
\* keyword token is "ai"; "healthcare." is no keyword), format "Solo
\* Commentary" and 6 timestamps, the first {"0:00", "Introduction"}.
C6_E2EScenario ==
  (FallbackReturned /\ fbOptions = E2EOptions)
    => (InferredCategory = "Technology" /\ E2EShape)

C6_Witness == FallbackReturned /\ fbOptions = E2EOptions

\* C7 as claimed: with keywords from two or more sets among the tokens, the
\* category is the first matching one in the order Technology, Business,
\* Health, Education, Science.
C7_AsClaimed ==
  FallbackReturned =>
    LET matched == MatchedSets(fbOptions.content)
    IN  Cardinality(matched) >= 2 => InferredCategory = CategoryNames[Least(matched)]

\* C7: with keywords from two or more sets among the tokens, the category is
\* the last matching one in that order: the priority is Science > Education
\* > Health > Business > Technology.
C7_LastMatchWins ==
  FallbackReturned =>
    LET matched == MatchedSets(fbOptions.content)
    IN  Cardinality(matched) >= 2 => InferredCategory = CategoryNames[Greatest(matched)]

\* The call returned for a content with keywords of two sets, neither set
\* being the last one tested.
C7_Witness ==
  /\ FallbackReturned
  /\ Cardinality(MatchedSets(fbOptions.content)) >= 2
  /\ 5 \notin MatchedSets(fbOptions.content)

\* The content's only category keyword is k.
KeywordTokens(content) == Tokens(content) \cap AllKeywords

OnlyKeyword(content, k) == KeywordTokens(content) = {k}

KeywordStudy == <<"s","t","u","d","y">>

\* C8 as claimed: content whose only category keyword is a keyword of a set
\* infers that set's category, for every keyword of every set.
C8_AsClaimed ==
  FallbackReturned =>
    LET found == KeywordTokens(fbOptions.content)
    IN  \A i \in 1..5 : \A k \in KeywordSets[i] :
          found = {k} => InferredCategory = CategoryNames[i]

\* C8: content whose only category keyword is a keyword of a set infers
\* that set's category, except that "study", which is in the Education set
\* and in the Science set, infers "Science".
C8_OnlyKeyword ==
  FallbackReturned =>
    LET found == KeywordTokens(fbOptions.content)
    IN  \A i \in 1..5 : \A k \in KeywordSets[i] :
          found = {k}
            => InferredCategory = IF k = KeywordStudy THEN "Science" ELSE CategoryNames[i]

\* The call returned for a content whose only keyword is "study".
C8_Witness == FallbackReturned /\ OnlyKeyword(fbOptions.content, KeywordStudy)

\* C9: a content of at least 10 characters none of whose whitespace-delimited
\* lower-cased tokens is in a keyword set has the category "General".
C9_NoKeywordIsGeneral ==
  (FallbackReturned /\ Len(fbOptions.content) >= 10
     /\ Tokens(fbOptions.content) \cap AllKeywords = {})
    => InferredCategory = "General"

\* The call returned for such a content, one of whose tokens begins with a
\* keyword.
C9_Witness ==
  /\ FallbackReturned
  /\ Len(fbOptions.content) >= 10
  /\ Tokens(fbOptions.content) \cap AllKeywords = {}
  /\ \E w \in Tokens(fbOptions.content) : \E k \in AllKeywords :
       Len(k) < Len(w) /\ SubSeq(w, 1, Len(k)) = k

\* The distinct tokens that qualify as topics and become entries of wordFreq.
QualifyingTokens(content) ==
  {w \in Tokens(content) : Len(w) > 4 /\ w \notin stopWords /\ w # NameProto}

MinutePart(time) ==
  LET ms == {m \in 0..99 : time \in {ToString(m) \o ":00", ToString(m) \o ":30"}}
  IN  IF ms = {} THEN [nan |-> TRUE, val |-> 0]
      ELSE [nan |-> FALSE, val |-> CHOOSE m \in ms : TRUE]

\* a >= b in JavaScript, where a comparison with NaN is false.
NumberGeq(a, b) == ~a.nan /\ ~b.nan /\ a.val >= b.val

\* The timestamps of the returned script are six and their minute parts
\* never decrease.
SixOrderedTimestamps ==
  LET ts == fbScript.showNotes.timestamps
      mins == [i \in 1..Len(ts) |-> MinutePart(ts[i].time)]
  IN  /\ Len(ts) = 6
      /\ \A i \in 2..Len(ts) : NumberGeq(mins[i], mins[i-1])

\* C11: for every duration value, showNotes.timestamps has exactly 6 entries
\* and the minute part of each entry's time is greater than or equal to the
\* minute part of the entry before it.
C11_TimestampsOrdered == FallbackReturned => SixOrderedTimestamps

\* The timestamps are ordered for the durations that name no inherited
\* property: the four keys of durationMap and the strings that default to 15.
TimestampsOrderedForPlainDurations ==
  (FallbackReturned /\ fbOptions.duration \notin ObjectPrototypeKeys)
    => SixOrderedTimestamps

\* C12: when showName is absent or is the empty string, the show name in the
\* intro's welcome line (right after its first literal) and in the outro's
\* thanks line (right before its last literal) is "The Show".
C12_DefaultShowName ==
  (FallbackReturned /\ fbOptions.showName \in {Undefined, << >>})
    => /\ fbScript.intro[2] = "The Show"
       /\ fbScript.outro[Len(fbScript.outro) - 1] = "The Show"

\* An absent show name does get the default.
AbsentShowNameDefaults ==
  (FallbackReturned /\ fbOptions.showName = Undefined)
    => /\ fbScript.intro[2] = "The Show"
       /\ fbScript.outro[Len(fbScript.outro) - 1] = "The Show"

\* C13: for every style string that is not conversational, professional,
\* educational or interview ("constructor" included), the intro is the intro
\* of style "conversational": its transition phrase is "So let's dive in".
C13_UnknownStyleIsConversational ==
  (FallbackReturned /\ fbOptions.style \notin OwnStyles)
    => /\ fbScript.intro
            = intro(fbOptions.showName,
                    firstSentence(sentences(fbOptions.content)),
                    styleFormats(StyleConversational))
       /\ fbScript.intro[Len(fbScript.intro) - 1] = "So let's dive in"

\* A style that names no inherited property does fall back to conversational.
PlainUnknownStyleIsConversational ==
  (FallbackReturned /\ fbOptions.style \notin OwnStyles
     /\ fbOptions.style \notin ObjectPrototypeKeys)
    => fbScript.intro[Len(fbScript.intro) - 1] = "So let's dive in"

\* The call of fetchContentFromUrl has ended.
FetchDone == fetch.pc = "done"

\* The response arrived with a status that is not successful.
NotOkResponse ==
  fetch.pc \notin {"idle", "fetching"} /\ ~fetch.response.rejected /\ ~fetch.response.ok

\* The pieces of an error message.
MessagePieces(result) == {result.message[i] : i \in 1..Len(result.message)}

\* C14: given a response whose status is not successful, fetchContentFromUrl
\* fails with an error that carries the status code and the status text,
\* and at no point of the call has the body been read or parsed; no
\* FetchedContent is returned.
C14_NotOkFailsBeforeBody ==
  NotOkResponse =>
    /\ FetchDone
    /\ fetch.result.kind = "threw"
    /\ ToString(fetch.response.status) \in MessagePieces(fetch.result)
    /\ fetch.response.statusText \in MessagePieces(fetch.result)
    /\ ~fetch.bodyRead
    /\ ~fetch.loaded

\* The call ended on a 404 response.
C14_Witness == NotOkResponse /\ FetchDone /\ fetch.response.status = 404

\* The document was parsed; what follows is computed from it.
FetchParsed == FetchDone /\ fetch.loaded

\* The nodes left after the noise elements are removed.
LiveNodes(dom) == Remove(dom, 1..Len(dom), Select(dom, 1..Len(dom), NoiseSelectors))

\* The extracted content of the response's document, cleaned.
CleanedContent ==
  LET dom == fetch.response.dom
      live == LiveNodes(dom)
  IN  CleanContent(ContentOrBody(dom, live, SelectContent(dom, live)))

CouldNotExtract ==
  fetch.result = Threw(<<"Failed to fetch content from URL: ",
                         "Could not extract meaningful content from the URL">>)

\* C15: whenever the cleaned extracted content is shorter than 50 characters
\* fetchContentFromUrl fails with the 'could not extract meaningful content'
\* error, and every FetchedContent it returns has a content of at least 50
\* characters.
C15_ShortContentFails ==
  FetchParsed =>
    /\ TextLength(CleanedContent) < 50 => CouldNotExtract
    /\ fetch.result.kind = "returned" => TextLength(fetch.result.value.content) >= 50

\* The call failed on a content that is not empty but shorter than 50.
C15_Witness ==
  /\ FetchParsed
  /\ CouldNotExtract
  /\ TextLength(CleanedContent) \in 1..49

\* The text of the document's article element, trimmed; empty if it has none.
ArticleText ==
  LET dom == fetch.response.dom
      all == 1..Len(dom)
  IN  TrimText(SelectionText(dom, all, Select(dom, all, {Tag("article")})))

\* The whitespace-normalized text of the article element.
ArticleNormalized == TrimText(CollapseWhitespace(ArticleText))

\* The returned content has none of the noise text.
NoNoise ==
  \A i \in 1..Len(fetch.result.value.content) :
    fetch.result.value.content[i] \notin {NoiseText[k] : k \in 1..Len(NoiseText)}

\* C16 as claimed: for every document with an article element whose text is
\* longer than 100 characters (also when only because of internal
\* whitespace), the returned content is the whitespace-normalized text of the
\* article element and has none of the noise text.
C16_AsClaimed ==
  (FetchParsed /\ TextLength(ArticleText) > 100)
    => /\ fetch.result.kind = "returned"
       /\ fetch.result.value.content = ArticleNormalized
       /\ NoNoise

\* C16: for every document with an article element whose trimmed text is
\* longer than 100 characters: if its whitespace-normalized text has at least
\* 50 characters, the returned content is that text and has none of the
\* noise text; if it has fewer than 50 (the article is longer than 100 only
\* because of internal whitespace), the call fails with the 'could not
\* extract meaningful content' error and returns nothing.
C16_ArticleWins ==
  (FetchParsed /\ TextLength(ArticleText) > 100)
    => IF TextLength(ArticleNormalized) >= 50
       THEN /\ fetch.result.kind = "returned"
            /\ fetch.result.value.content = ArticleNormalized
            /\ NoNoise
       ELSE CouldNotExtract

\* The call ended for a document with noise, another content area and an
\* article that is longer than 100 only because of internal whitespace.
C16_Witness ==
  /\ FetchParsed
  /\ TextLength(ArticleText) > 100
  /\ TextLength(ArticleNormalized) < 100
  /\ Select(fetch.response.dom, 1..Len(fetch.response.dom), {Tag("main"), Tag("nav")}) # {}

\* The title the claim describes: the title element's text, else the first
\* h1's text when that is empty or whitespace only, else the placeholder.
ClaimedTitle ==
  LET dom == fetch.response.dom
      live == LiveNodes(dom)
      fromTitle == TrimText(SelectionText(dom, live, Select(dom, live, {Tag("title")})))
      fromHeading == TrimText(SelectionText(dom, live, First(Select(dom, live, {Tag("h1")}))))
  IN  IF fromTitle # << >> THEN fromTitle
      ELSE IF fromHeading # << >> THEN fromHeading
      ELSE <<Word("Untitled"), Space(" ", 1), Word("Article")>>

\* C17: the title of every FetchedContent returned is a non-empty string: the
\* title element's text, else the first h1's text when the title element is
\* absent or empty (whitespace-only included), else "Untitled Article".
C17_TitleNonEmpty ==
  (FetchParsed /\ fetch.result.kind = "returned")
    => /\ fetch.result.value.title # << >>
       /\ fetch.result.value.title = ClaimedTitle

\* The title is the described one when neither the title element nor the
\* first h1 has a text of whitespace only.
TitleOfNonBlankElements ==
  (FetchParsed /\ fetch.result.kind = "returned"
     /\ \A k \in 1..Len(fetch.response.dom) :
          fetch.response.dom[k].tag = "#text" => TrimText(fetch.response.dom[k].text) # << >>)
    => /\ fetch.result.value.title # << >>
       /\ fetch.result.value.title = ClaimedTitle

\* C18: in POST /api/scripts/generate, once fetchContentFromUrl has failed
\* the request has ended with an error response; generatePodcastScript was
\* not called (the request never waits for the AI call and has no outcome of
\* one), no script was made from the submitted inputContent, and the request
\* stored nothing.
C18_FetchFailureIsTerminal ==
  \A r \in Requests :
    (req[r].handler = "express" /\ req[r].fetched # NoFetch /\ ~req[r].fetched.ok)
      => /\ req[r].pc = "responded"
         /\ req[r].response.status >= 400
         /\ req[r].ai = NoOutcome
         /\ req[r].saved = [none |-> TRUE]

\* A request ended on a failed fetch while the storage holds a record of
\* another request.
C18_Witness ==
  \E r \in Requests :
    /\ req[r].handler = "express" /\ req[r].fetched # NoFetch /\ ~req[r].fetched.ok
    /\ req[r].pc = "responded"
    /\ scripts # << >>

\* The request has reached the script generation.
ReachedGeneration(r) == req[r].pc \in {"generating", "storing"} \/ req[r].ai # NoOutcome

\* C19: on every request path that reaches the script generation (the
\* Express route with text input and with url input, the Netlify handler)
\* the content handed to the generator has at least 10 characters.
C19_ContentAtLeastTen ==
  \A r \in Requests : ReachedGeneration(r) => Len(req[r].content) >= 10

\* The Express route hands on at least 10 characters, for text and for url
\* input.
ExpressContentAtLeastTen ==
  \A r \in Requests :
    (req[r].handler = "express" /\ ReachedGeneration(r)) => Len(req[r].content) >= 10

\* C20: after any sequence of createPodcastScript, getPodcastScript and
\* listPodcastScripts calls, the map holds exactly the records the creates
\* returned, unchanged and in order, each under an id of its own;
\* getPodcastScript(id) returned the record created with that id, and no
\* record for an id never created; listPodcastScripts returned exactly the
\* records created so far.
C20_StorageKeepsRecords ==
  LET created == store.created
      WithId(id) == {k \in 1..Len(created) : created[k].id = id}
  IN  /\ scripts = created
      /\ \A k \in 1..Len(created) : WithId(created[k].id) = {k}
      /\ store.op = "create" => store.found = created[Len(created)]
      /\ store.op = "get" =>
           store.found = IF WithId(store.id) = {} THEN NoRecord
                         ELSE created[CHOOSE k \in WithId(store.id) : TRUE]
      /\ store.op = "list" => store.listed = created

\* A record was read back by its id after two or more creates.
C20_Witness ==
  /\ store.op = "get"
  /\ store.found # NoRecord
  /\ store.found = store.created[1]
  /\ Len(store.created) >= 2

(***************************************************************************)
(* Concurrent requests to POST /api/scripts/generate.                      *)
(***************************************************************************)
\* Request r went through the Express handler and its record was stored.
Persisted(r) ==
  /\ req[r].handler = "express"
  /\ \/ req[r].pc = "storing"
     \/ req[r].pc = "responded" /\ req[r].response.status = 200

\* What request r hands to createPodcastScript when it is the only request:
\* computed from its own body, its own fetch and its own AI outcome.
Alone(r) ==
  LET d == req[r].data
      content == IF d.inputType = "url" /\ d.sourceUrl # Undefined
                 THEN req[r].fetched.content ELSE d.inputContent
  IN  [data |-> [d EXCEPT !.inputContent = content],
       script |-> generatePodcastScriptService(
                    [content |-> content, style |-> d.podcastStyle,
                     duration |-> d.targetDuration, showName |-> d.showName],
                    req[r].ai).value]

\* The storage after the requests of order ran one after the other.
RECURSIVE SequentialRun(_)
SequentialRun(order) ==
  IF order = << >> THEN << >>
  ELSE LET before == SequentialRun(SubSeq(order, 1, Len(order) - 1))
       IN  MapSet(before, CreatedRecord(before, Alone(order[Len(order)])))

\* C21: interleaved generate requests are independent: each request whose
\* record was stored has exactly one record in the storage, under an id no
\* other request has, holding what the request alone produces, and the
\* storage is the storage of some sequential run of those requests.
C21_RequestsIndependent ==
  LET done == {r \in Requests : Persisted(r)}
  IN  /\ \A r \in done :
           LET alone == Alone(r)
               saved == req[r].saved
           IN  /\ Cardinality({k \in 1..Len(scripts) : scripts[k].id = saved.id}) = 1
               /\ getPodcastScript(scripts, saved.id) = saved
               /\ saved.data = alone.data
               /\ saved.script = alone.script
               /\ \A q \in done \ {r} : req[q].saved.id # saved.id
      /\ \A r \in Requests \ done : req[r].saved = [none |-> TRUE]
      /\ Len(scripts) = Cardinality(done)
      /\ scripts # << >> =>
           \E order \in [1..Len(scripts) -> done] :
             /\ \A k \in 1..Len(scripts) : req[order[k]].saved = scripts[k]
             /\ scripts = SequentialRun(order)

\* Request 2 has stored its record and not yet answered; request 1, a url
\* request whose fetch went through, stored its own record after it.
C21_Witness ==
  /\ Persisted(1) /\ Persisted(2)
  /\ req[2].pc = "storing"
  /\ req[2].saved.id = 1 /\ req[1].saved.id = 2
  /\ req[1].data.inputType = "url" /\ req[1].fetched.ok
  /\ req[2].data.inputType = "text"
  /\ req[1].saved.script # req[2].saved.script

(***************************************************************************)
(* The order of the key topics.                                            *)
(***************************************************************************)
\* The key topics as claimed: the distinct qualifying tokens ranked by
\* occurrence count, the higher first, equal counts by first occurrence; the
\* first five, capitalised.
ClaimedKeyTopics(content) ==
  LET ws == Split(ToLowerCase(content), Whitespace)
      firsts == {i \in 1..Len(ws) : /\ Len(ws[i]) > 4
                                    /\ ws[i] \notin stopWords
                                    /\ \A j \in 1..(i-1) : ws[j] # ws[i]}
      Count(i) == Cardinality({j \in 1..Len(ws) : ws[j] = ws[i]})
      Rank(i) == 1 + Cardinality({j \in firsts : \/ Count(j) > Count(i)
                                                 \/ Count(j) = Count(i) /\ j < i})
      n == IF Cardinality(firsts) < 5 THEN Cardinality(firsts) ELSE 5
  IN  [k \in 1..n |-> Capitalize(ws[CHOOSE i \in firsts : Rank(i) = k])]

\* The qualifying tokens that name an array index or a property of
\* Object.prototype.
SpecialTokens(content) ==
  {w \in Tokens(content) :
     /\ Len(w) > 4
     /\ IsArrayIndex(w) \/ w = NameConstructor \/ w = NameProto}

\* C22: the key topics are the (at most) five qualifying tokens with the
\* highest occurrence counts, in descending count order, equal counts in
\* order of first occurrence, whatever the tokens are.
C22_KeyTopicsRanked ==
  FallbackReturned =>
    LET claimed == ClaimedKeyTopics(fbOptions.content)
    IN  claimed # << >> => fbScript.showNotes.keyTopics = claimed

\* The same for the contents none of whose qualifying tokens is digits-only,
\* "constructor" or "__proto__".
KeyTopicsRankedForPlainTokens ==
  FallbackReturned /\ SpecialTokens(fbOptions.content) = {} =>
    LET claimed == ClaimedKeyTopics(fbOptions.content)
    IN  claimed # << >> => fbScript.showNotes.keyTopics = claimed

(***************************************************************************)
(* The sentences in the intro and the main content.                        *)
(***************************************************************************)
\* The pieces the content falls into at runs of '.', '!' and '?', without
\* those whose trimmed length is 10 or less.
ClaimedPieces(content) ==
  SelectSeq(Split(content, SentenceEnd), LAMBDA s : Len(Trim(s)) > 10)

\* The characters of an assembled text that are not part of a literal of the
\* template: what the content and the show name put in, and the numerals of
\* the list.
Characters(text) == SelectSeq(text, LAMBDA e : Len(e) = 1)

ImplicationsHeading == "\n\nLet me break down the key implications:\n\n"

\* The list under the heading has a first item.
ImplicationsListed ==
  LET mc == fbScript.mainContent
  IN  \E k \in 1..(Len(mc) - 2) :
        mc[k] = ImplicationsHeading /\ mc[k + 1] = "1" /\ mc[k + 2] = ". "

\* C23: the list under "Let me break down the key implications:" is never
\* empty: it holds points drawn from the content, or placeholder sentences
\* when fewer than five sentences qualify.
C23_ImplicationsNeverEmpty == FallbackReturned => ImplicationsListed

\* With five or more qualifying sentences the list is not empty.
ImplicationsOfFiveSentences ==
  FallbackReturned /\ Len(ClaimedPieces(fbOptions.content)) >= 5 => ImplicationsListed

\* The content-derived characters the main content is claimed to have: the
\* pieces 2 to 8 that exist, the fifth to seventh as numbered items.
ClaimedMainCharacters(ps) ==
  LET P(i) == IF i <= Len(ps) THEN ps[i] ELSE << >>
      N(i, d) == IF i <= Len(ps) THEN <<d>> \o ps[i] ELSE << >>
  IN  P(2) \o P(3) \o P(4) \o N(5, "1") \o N(6, "2") \o N(7, "3") \o P(8)

DefaultHook == "Welcome to today's discussion."

\* C24: the content is split at runs of '.', '!' and '?', and pieces whose
\* trimmed length is 10 or less are dropped; the first piece left, trimmed,
\* is the intro hook (the default hook when none is left), and pieces 2 to 8
\* and no others are the content-derived text of the main content.
C24_SentenceSeeding ==
  FallbackReturned =>
    LET ps == ClaimedPieces(fbOptions.content)
        name == IF fbOptions.showName = Undefined THEN << >> ELSE fbOptions.showName
    IN  /\ Characters(fbScript.intro)
             = name \o (IF ps = << >> THEN << >> ELSE Trim(ps[1]))
        /\ ps = << >> <=> (\E k \in 1..Len(fbScript.intro) : fbScript.intro[k] = DefaultHook)
        /\ Characters(fbScript.mainContent) = ClaimedMainCharacters(ps)

\* The call returned for a content of nine qualifying pieces and some
\* dropped ones.
C24_Witness ==
  /\ FallbackReturned
  /\ Len(ClaimedPieces(fbOptions.content)) >= 9
  /\ Len(Split(fbOptions.content, SentenceEnd)) > Len(ClaimedPieces(fbOptions.content)) + 1

(***************************************************************************)
(* The total-minutes estimate and the timestamps.                          *)
(***************************************************************************)
\* The estimate as claimed: the four buckets, and 15 for any other string.
ClaimedEstimate(duration) ==
  IF duration = Duration5to10 THEN 8
  ELSE IF duration = Duration20to30 THEN 25
  ELSE IF duration = Duration30plus THEN 35
  ELSE 15

\* The six time labels for an estimate of e minutes.
ClaimedTimes(e) ==
  << "0:00", "1:30", ToString((2 * e) \div 10) \o ":00", ToString((5 * e) \div 10) \o ":00",
     ToString((8 * e) \div 10) \o ":00", ToString(e - 2) \o ":00" >>

TimesOfTenToTwenty == << "0:00", "1:30", "3:00", "7:00", "12:00", "13:00" >>

\* The time labels of the returned script.
ReturnedTimes ==
  [i \in 1..Len(fbScript.showNotes.timestamps) |-> fbScript.showNotes.timestamps[i].time]

\* C25: the estimate is 8, 15, 25, 35 for the four buckets and 15 for every
\* other duration string, so every unrecognized duration has the six
\* timestamps of "10-20": 0:00, 1:30, 3:00, 7:00, 12:00, 13:00.
C25_UnrecognizedDurationIsTenToTwenty ==
  FallbackReturned =>
    /\ ReturnedTimes = ClaimedTimes(ClaimedEstimate(fbOptions.duration))
    /\ fbOptions.duration \notin OwnDurations \ {Duration10to20}
         => ReturnedTimes = TimesOfTenToTwenty

\* The same for the durations that name no inherited property.
PlainDurationEstimates ==
  FallbackReturned /\ fbOptions.duration \notin ObjectPrototypeKeys =>
    /\ ReturnedTimes = ClaimedTimes(ClaimedEstimate(fbOptions.duration))
    /\ fbOptions.duration \notin OwnDurations \ {Duration10to20}
         => ReturnedTimes = TimesOfTenToTwenty

\* A time label m:00 or m:30 read as seconds.
TimeInSeconds(time) ==
  LET m == MinutePart(time)
  IN  IF m.nan THEN m
      ELSE [nan |-> FALSE,
            val |-> 60 * m.val + (IF time = ToString(m.val) \o ":30" THEN 30 ELSE 0)]

\* No timestamp of the returned script is earlier than the one before it.
Chronological ==
  LET ts == fbScript.showNotes.timestamps
  IN  /\ Len(ts) = 6
      /\ \A i \in 2..Len(ts) :
           NumberGeq(TimeInSeconds(ts[i].time), TimeInSeconds(ts[i-1].time))

\* C28: for each of the four duration buckets the six timestamps, read as
\* minutes:seconds, are in chronological order: none is earlier than the one
\* before it.
C28_TimestampsChronological ==
  FallbackReturned /\ fbOptions.duration \in OwnDurations => Chronological

\* The same for the buckets other than "5-10".
LongerBucketsChronological ==
  FallbackReturned /\ fbOptions.duration \in OwnDurations \ {Duration5to10}
    => Chronological

(***************************************************************************)
(* The selection of the content area and the normalized content.           *)
(***************************************************************************)
\* The order in which the content areas are claimed to be tried.
ClaimedOrder ==
  <<Tag("article"), Tag("main"), Class("content"), Class("article-content"),
    Class("post-content"), Class("entry-content"), Id("content"),
    Class("story-body"), Class("article-body")>>

\* The trimmed text of what a selector finds in the response's document.
SelectorText(selector) ==
  LET dom == fetch.response.dom
      live == LiveNodes(dom)
  IN  TrimText(SelectionText(dom, live, Select(dom, live, {selector})))

\* The selectors of the claimed order whose trimmed text is longer than 100.
Qualifying == {k \in 1..Len(ClaimedOrder) : TextLength(SelectorText(ClaimedOrder[k])) > 100}

\* The text selected as claimed: that of the first qualifying selector, the
\* body's text when there is none.
ClaimedSelection ==
  IF Qualifying = {} THEN SelectorText(Tag("body"))
  ELSE SelectorText(ClaimedOrder[CHOOSE k \in Qualifying : \A o \in Qualifying : k <= o])

\* C26: the content is taken from the first of article, main, .content,
\* .article-content, .post-content, .entry-content, #content, .story-body,
\* .article-body whose trimmed text is longer than 100 characters, and from
\* the whole body when none qualifies; a later selector is never preferred
\* to an earlier qualifying one.  (What is selected is then cleaned and
\* refused when shorter than 50.)
C26_FirstQualifyingSelector ==
  FetchParsed =>
    LET cleaned == CleanContent(ClaimedSelection)
    IN  IF TextLength(cleaned) < 50 THEN CouldNotExtract
        ELSE /\ fetch.result.kind = "returned"
             /\ fetch.result.value.content = cleaned

\* The call returned the content of #content for a document in which an
\* .article-body of more than 100 characters comes first and the article has
\* exactly 100.
C26_Witness ==
  /\ FetchParsed
  /\ fetch.result.kind = "returned"
  /\ Qualifying = {7, 9}
  /\ TextLength(SelectorText(Tag("article"))) = 100
  /\ fetch.result.value.content = CleanContent(SelectorText(Id("content")))

\* A content is normalized: it neither starts nor ends with whitespace and
\* every whitespace in it is one character with none next to it.
Normalized(content) ==
  /\ content # << >> => ~content[1].ws /\ ~content[Len(content)].ws
  /\ \A i \in 1..Len(content) :
       content[i].ws => /\ content[i].n = 1
                        /\ i < Len(content) => ~content[i + 1].ws

\* The whitespace-delimited tokens of a content: the places where a token
\* starts.
TokenStarts(content) ==
  {i \in 1..Len(content) : ~content[i].ws /\ (i = 1 \/ content[i - 1].ws)}

\* C27: every content fetchContentFromUrl returns is normalized (no leading
\* or trailing whitespace, no two adjacent whitespace characters),
\* normalizing it again changes nothing, and wordCount is the number of its
\* whitespace-delimited tokens, at least 1.
C27_ContentNormalized ==
  FetchParsed /\ fetch.result.kind = "returned" =>
    LET content == fetch.result.value.content
    IN  /\ Normalized(content)
        /\ TrimText(CleanLineBreaks(CollapseWhitespace(content))) = content
        /\ fetch.result.value.wordCount = Cardinality(TokenStarts(content))
        /\ fetch.result.value.wordCount >= 1

\* The call returned a content taken from a text with a run of 40 line feeds.
C27_Witness ==
  /\ FetchParsed
  /\ fetch.result.kind = "returned"
  /\ SelectorText(Tag("article")) = ArticlePaddedMid
  /\ fetch.result.value.content # ArticlePaddedMid
  /\ TextLength(fetch.result.value.content) = 65

(***************************************************************************)
(* The records POST /api/scripts/generate persists.                        *)
(***************************************************************************)
\* Every record was stored by a request whose generation returned with the
\* record's script, for the content the record holds (the fetched text when
\* the request fetched), and no request that ended in an error stored one.
RecordsOfReturnedGenerations ==
  /\ \A k \in 1..Len(scripts) :
       \E r \in Requests :
         /\ Persisted(r)
         /\ req[r].saved = scripts[k]
         /\ scripts[k].data.inputContent = req[r].content
         /\ req[r].fetched # NoFetch =>
              req[r].fetched.ok /\ scripts[k].data.inputContent = req[r].fetched.content
         /\ LET result == generatePodcastScriptService(
                            [content |-> req[r].content,
                             style |-> req[r].data.podcastStyle,
                             duration |-> req[r].data.targetDuration,
                             showName |-> req[r].data.showName], req[r].ai)
            IN  result.kind = "returned" /\ result.value = scripts[k].script
  /\ Len(scripts) = Cardinality({r \in Requests : Persisted(r)})
  /\ \A r \in Requests :
       req[r].pc = "responded" /\ req[r].response.status # 200
         => req[r].saved = [none |-> TRUE]

\* C29: every record persisted by POST /api/scripts/generate has a script
\* that is not null and the inputContent that was passed to the generator
\* (the fetched text for a url request); a record is written only after the
\* generation returned, and a request that ends in an error response leaves
\* the storage as it was.
C29_PersistedRecords ==
  /\ \A k \in 1..Len(scripts) : scripts[k].script # JsNull
  /\ RecordsOfReturnedGenerations

\* A step in which a request ends in an error response leaves the storage as
\* it was.
ErrorLeavesStorage ==
  [][\A r \in Requests :
       (req[r].pc # "responded" /\ req'[r].pc = "responded"
          /\ req'[r].response.status # 200)
         => scripts' = scripts]_vars

(***************************************************************************)
(* The requests the Home page sends.                                       *)
(***************************************************************************)
\* A generate request of the page is in flight.
RequestSent == home.generating.pending

\* C30: in the Home page, after any tab switches, edits, fetches and 'Use
\* This Content' clicks, the request handleGenerateScript sends (the button
\* being enabled and the content having at least 10 non-blank characters)
\* satisfies generateScriptSchema; inputType "url" in particular goes only
\* with a sourceUrl that is a valid URL.
C30_RequestSatisfiesSchema ==
  RequestSent =>
    /\ SchemaAccepts(home.generating.data)
    /\ home.generating.data.inputType = "url" => IsUrl(home.generating.data.sourceUrl)

\* The requests sent from the text panel satisfy the schema, and those sent
\* from the URL panel do when the URL field holds a URL.
RequestSatisfiesSchemaButForUrl ==
  RequestSent =>
    LET data == home.generating.data
    IN  /\ Len(Trim(data.inputContent)) >= 10
        /\ data.inputType = "text" => SchemaAccepts(data) /\ data.sourceUrl = Undefined
        /\ data.inputType = "url" => (SchemaAccepts(data) <=> IsUrl(data.sourceUrl))

====
